---------------------------- MODULE Spec2Model ----------------------------
(***************************************************************************)
(* TRUTH-SEEKERS claim-verification backend.                               *)
(*                                                                         *)
(* Fourteen state machines share this module:                              *)
(*   Spec       one request through VerificationService.verify: the eight  *)
(*              LangGraph nodes of VerificationPipeline in order, then the *)
(*              page score;                                                *)
(*   SpecFetch  RetrievalAgent.fetch_evidence: the search coroutines under *)
(*              asyncio.Semaphore(3), asyncio.gather, the merge by claim;  *)
(*   SpecSearch RetrievalAgent._search: provider selection and fallback;   *)
(*   SpecRank   EvidenceRankerAgent.rank_evidence, item by item;           *)
(*   SpecVerify VerificationAgent.verify_claims, claim by claim;           *)
(*   SpecPlan   QueryPlannerAgent.plan_queries, claim by claim;            *)
(*   SpecScore  VerificationService._calculate_page_score;                 *)
(*   SpecSources ExplanationAgent._build_sources;                          *)
(*   SpecEnum   the enum fields of ExplanationAgent.format_results;        *)
(*   SpecRequest the verify_content and verify_url endpoints up to the     *)
(*              call of the service;                                       *)
(*   SpecProgress the progress of a run: the chain of nodes and the        *)
(*              searches under the semaphore, with weak fairness;          *)
(*   SpecRecency EvidenceRankerAgent._calculate_recency_score;             *)
(*   SpecErrors the errors key of PipelineState under its reducer;         *)
(*   SpecFilter ClaimClassifierAgent.filter_claims.                        *)
(*                                                                         *)
(* Scores are fixed-point integers in thousandths (0.5 is 500).            *)
(***************************************************************************)
EXTENDS Integers, Sequences, FiniteSets, TLC

(***************************************************************************)
(* Bounds of the model.                                                    *)
(***************************************************************************)
\* claims the extraction completion may hold; claim ids are 1..MaxClaims
MaxClaims == 2
\* longest query array a query-planning completion may hold
MaxPlanned == 2
\* items one search call may return (at most
\* max_results_per_query = 5 in retrieval.py:28)
MaxResults == 2
\* settings.MAX_EVIDENCE_PER_CLAIM of a pipeline run (core/config.py:66: 10
\* unless the environment sets it); the model runs with a small value
MAX_EVIDENCE_PER_CLAIM == 1

\* the largest max_evidence_per_claim of a ranker called on its own
MaxRankK == 3

(***************************************************************************)
(* Program constants.                                                      *)
(***************************************************************************)
\* asyncio.Semaphore(3)
SEMAPHORE_SLOTS == 3
\* queries[claim["id"]] = claim_queries[:3]
MAX_QUERIES == 3
\* relevance * 0.5 + domain_score * 0.3 + recency * 0.2
W_RELEVANCE == 5
W_DOMAIN == 3
W_RECENCY == 2
\* the neutral score 0.5 (relevance default, unknown date, unlisted domain)
NEUTRAL == 500
ONE == 1000

(***************************************************************************)
(* Helpers on sequences.                                                   *)
(***************************************************************************)
Range(s) == {s[i] : i \in 1..Len(s)}

\* s[:n] of Python
Take(s, n) == SubSeq(s, 1, IF Len(s) < n THEN Len(s) ELSE n)

Min(a, b) == IF a < b THEN a ELSE b

Max(a, b) == IF a > b THEN a ELSE b

RECURSIVE SeqsUpTo(_, _)
\* all sequences over S of length at most n
SeqsUpTo(S, n) ==
    IF n = 0 THEN {<<>>}
    ELSE LET shorter == SeqsUpTo(S, n - 1)
         IN shorter \cup {Append(s, x) : s \in {t \in shorter : Len(t) = n - 1}, x \in S}

\* an empty dict
EmptyDict == [k \in {} |-> <<>>]


\* the keys of a dict in insertion order; dicts keyed by claim id are filled
\* in claim order, and claim ids are numbered in extraction order
RECURSIVE KeysInOrder(_)
KeysInOrder(S) ==
    IF S = {} THEN <<>>
    ELSE LET m == CHOOSE x \in S : \A y \in S : x <= y
         IN <<m>> \o KeysInOrder(S \ {m})

\* d[k] = v of Python on a dict
DictSet(d, k, v) == [x \in DOMAIN d \cup {k} |-> IF x = k THEN v ELSE d[x]]

(***************************************************************************)
(* Evidence items (retrieval.py).                                          *)
(***************************************************************************)
Urls == {"https://en.wikipedia.org/a", "https://medium.com/b", "https://example.com/c"}

\* urlparse(url).netloc
Netloc(url) ==
    CASE url = "https://en.wikipedia.org/a" -> "en.wikipedia.org"
      [] url = "https://medium.com/b" -> "medium.com"
      [] url = "https://example.com/c" -> "example.com"
      [] url = "https://example.com/d" -> "example.com"
      [] OTHER -> ""

\* the entries of trusted_domains that are a substring of the domain
TrustedIn(domain) == IF domain = "en.wikipedia.org" THEN {"wikipedia.org"} ELSE {}

\* the entries of medium_domains that are a substring of the domain
MediumIn(domain) == IF domain = "medium.com" THEN {"medium.com"} ELSE {}

_get_domain_reputation(domain) ==
    IF TrustedIn(domain) # {} THEN 900
    ELSE IF MediumIn(domain) # {} THEN 700
    ELSE NEUTRAL

\* published_at of an item: None, or a date string
NoDate == [kind |-> "none", age |-> 0]

\* the dict a provider builds for one result; the snippet is what the
\* provider wrote for this query
ProviderItem(url, snippet, published_at) ==
    [url |-> url,
     snippet |-> snippet,
     domain_reputation |-> _get_domain_reputation(Netloc(url)),
     published_at |-> published_at,
     relevance_score |-> NEUTRAL]

\* what awaiting one search coroutine gives: a list of items, or an exception
SearchRaised == [exc |-> TRUE, items |-> <<>>]

SearchReturned(items) == [exc |-> FALSE, items |-> items]

\* what one search does, before its items are built: it raises, or the
\* provider lists up to n URLs (the same URL may come twice)
SearchOutcomes(urls, n) ==
    {[exc |-> TRUE, urls |-> <<>>]} \cup {[exc |-> FALSE, urls |-> us] : us \in SeqsUpTo(urls, n)}

\* the result of the search of one query, of a provider that reports no dates
SearchResult(outcome, query) ==
    IF outcome.exc THEN SearchRaised
    ELSE SearchReturned([i \in 1..Len(outcome.urls) |->
                            ProviderItem(outcome.urls[i], query, NoDate)])

(***************************************************************************)
(* RetrievalAgent.fetch_evidence: the task list and the merge by claim.    *)
(***************************************************************************)
RECURSIVE TasksOf(_, _)
\* tasks and claim_query_map: one entry per query, claim by claim
TasksOf(queries, keys) ==
    IF keys = <<>> THEN <<>>
    ELSE [i \in 1..Len(queries[Head(keys)]) |->
             [claim_id |-> Head(keys), query |-> queries[Head(keys)][i]]]
         \o TasksOf(queries, Tail(keys))

Tasks(queries) == TasksOf(queries, KeysInOrder(DOMAIN queries))

UrlsOf(items) == {items[i].url : i \in 1..Len(items)}

\* a merge that appends every item of the result
AddItemsUnchecked(list, result) == list \o result

RECURSIVE AddItems(_, _)
\* for item in result: append it unless its url is in existing_urls
AddItems(list, result) ==
    IF result = <<>> THEN list
    ELSE AddItems(IF Head(result).url \in UrlsOf(list) THEN list
                  ELSE Append(list, Head(result)),
                  Tail(result))

\* one turn of the loop over zip(claim_query_map, results)
AggregateStep(evidence, claim_id, result) ==
    LET ev == IF claim_id \in DOMAIN evidence THEN evidence
              ELSE DictSet(evidence, claim_id, <<>>)
    IN IF result.exc THEN ev
       ELSE [ev EXCEPT ![claim_id] = AddItems(@, result.items)]

RECURSIVE Aggregate(_, _, _, _)
Aggregate(tasks, results, i, evidence) ==
    IF i > Len(tasks) THEN evidence
    ELSE Aggregate(tasks, results, i + 1,
                   AggregateStep(evidence, tasks[i].claim_id, results[i]))

\* fetch_evidence, given what gather returned for each task
fetch_evidence(queries, results) ==
    IF DOMAIN queries = {} THEN EmptyDict
    ELSE Aggregate(Tasks(queries), results, 1, EmptyDict)

(***************************************************************************)
(* EvidenceRankerAgent (evidence_ranker.py).                               *)
(***************************************************************************)
\* a set of publication ages in days, for the items that carry a date
AgeDays == {-10, 0, 7, 30, 60, 90, 180, 365, 730, 1000, 2000, 4000}

DatedAt(age) == [kind |-> "date", age |-> age]

\* a date string that none of the three formats parses
BadDate == [kind |-> "bad", age |-> 0]

\* decay_rate of a time sensitivity
DecayRate(time_sensitivity) ==
    IF time_sensitivity = "high" THEN 90
    ELSE IF time_sensitivity = "medium" THEN 365
    ELSE 1000

\* 0.5 ** (age_days / decay_rate) in thousandths, rounded, on AgeDays
HalfPow(age, rate) ==
    CASE rate = 90 ->
           (CASE age = -10 -> 1080 [] age = 0 -> 1000 [] age = 7 -> 948
              [] age = 30 -> 794 [] age = 60 -> 630 [] age = 90 -> 500
              [] age = 180 -> 250 [] age = 365 -> 60 [] age = 730 -> 4
              [] OTHER -> 0)
      [] rate = 365 ->
           (CASE age = -10 -> 1019 [] age = 0 -> 1000 [] age = 7 -> 987
              [] age = 30 -> 945 [] age = 60 -> 892 [] age = 90 -> 843
              [] age = 180 -> 710 [] age = 365 -> 500 [] age = 730 -> 250
              [] age = 1000 -> 150 [] age = 2000 -> 22 [] OTHER -> 1)
      [] OTHER ->
           (CASE age = -10 -> 1007 [] age = 0 -> 1000 [] age = 7 -> 995
              [] age = 30 -> 979 [] age = 60 -> 959 [] age = 90 -> 940
              [] age = 180 -> 883 [] age = 365 -> 776 [] age = 730 -> 603
              [] age = 1000 -> 500 [] age = 2000 -> 250 [] OTHER -> 63)

\* the score with the final max(0.1, min(1.0, score)) left out
_calculate_recency_score_unclamped(published_at, time_sensitivity) ==
    IF published_at.kind = "none" THEN NEUTRAL
    ELSE IF published_at.kind = "bad" THEN NEUTRAL
    ELSE HalfPow(published_at.age, DecayRate(time_sensitivity))

_calculate_recency_score(published_at, time_sensitivity) ==
    IF published_at.kind = "none" THEN NEUTRAL
    ELSE IF published_at.kind = "bad" THEN NEUTRAL
    ELSE Max(100, Min(ONE, HalfPow(published_at.age, DecayRate(time_sensitivity))))

\* what the relevance completion is: the provider failed, text that float()
\* rejects, "nan", or a number (in thousandths)
RelevanceError == [kind |-> "error", value |-> 0]

RelevanceText == [kind |-> "text", value |-> 0]

RelevanceNaN == [kind |-> "nan", value |-> 0]

RelevanceNumber(v) == [kind |-> "number", value |-> v]

\* max(0.0, min(1.0, score)); min(1.0, nan) is 1.0 in Python
_get_relevance_score(completion) ==
    CASE completion.kind = "number" -> Max(0, Min(ONE, completion.value))
      [] completion.kind = "nan" -> ONE
      [] OTHER -> NEUTRAL

\* combined, in ten-thousandths
_score_evidence(claim, item, completion) ==
    _get_relevance_score(completion) * W_RELEVANCE
    + item.domain_reputation * W_DOMAIN
    + _calculate_recency_score(item.published_at, claim.time_sensitivity) * W_RECENCY

\* item[k] = v on an item dict
ItemSet(item, k, v) == [f \in DOMAIN item \cup {k} |-> IF f = k THEN v ELSE item[f]]

\* the item after _score_evidence and item["combined_score"] = score
ScoredItem(claim, item, completion) ==
    ItemSet(ItemSet(item, "relevance_score", _get_relevance_score(completion)),
            "combined_score", _score_evidence(claim, item, completion))

\* where list.sort(reverse=True) puts an item among those sorted before it:
\* after every item whose key is not smaller (the sort is stable)
InsertDesc(sorted, item) ==
    LET k == Cardinality({i \in 1..Len(sorted) :
                            sorted[i].combined_score >= item.combined_score})
    IN SubSeq(sorted, 1, k) \o <<item>> \o SubSeq(sorted, k + 1, Len(sorted))

RECURSIVE SortDesc(_)
\* scored_items.sort(key=lambda x: x["combined_score"], reverse=True)
SortDesc(items) ==
    IF items = <<>> THEN <<>>
    ELSE InsertDesc(SortDesc(SubSeq(items, 1, Len(items) - 1)), items[Len(items)])

\* the truncation without the sort before it
TopKUnsorted(scored_items, max_evidence_per_claim) ==
    Take(scored_items, max_evidence_per_claim)

\* scored_items[:self.max_evidence_per_claim] after the sort
TopK(scored_items, max_evidence_per_claim) ==
    Take(SortDesc(scored_items), max_evidence_per_claim)

\* claims_by_id[claim_id]: the last claim of the list with this id
ClaimById(claims, claim_id) ==
    claims[CHOOSE i \in 1..Len(claims) :
              /\ claims[i].id = claim_id
              /\ \A j \in (i + 1)..Len(claims) : claims[j].id # claim_id]

ClaimIdsOf(claims) == {claims[i].id : i \in 1..Len(claims)}

\* the evidence dict after the ranker scored its items in place
ScoredEvidence(claims, evidence, completions) ==
    IF claims = <<>> \/ DOMAIN evidence = {} THEN evidence
    ELSE [cid \in DOMAIN evidence |->
            IF cid \notin ClaimIdsOf(claims) THEN evidence[cid]
            ELSE [i \in 1..Len(evidence[cid]) |->
                    ScoredItem(ClaimById(claims, cid), evidence[cid][i],
                               completions[cid][i])]]

\* the dict rank_evidence returns, for a ranker built with this setting
rank_evidence(claims, evidence, completions, max_evidence_per_claim) ==
    IF claims = <<>> \/ DOMAIN evidence = {} THEN EmptyDict
    ELSE LET scored == ScoredEvidence(claims, evidence, completions)
         IN [cid \in DOMAIN evidence \cap ClaimIdsOf(claims) |->
                TopK(scored[cid], max_evidence_per_claim)]

(***************************************************************************)
(* The LLM-backed agents.  A completion is given by what the agent's       *)
(* parsing makes of it: "error" (the provider call raised), "text" (no     *)
(* bracket pair, or text json.loads rejects), "json" (parsed).             *)
(***************************************************************************)
\* IngestionAgent.process on the request texts of the model: tags removed,
\* whitespace collapsed, the words counted
process(text) ==
    IF text = "<b>Tea  is hot</b>" THEN [text |-> "Tea is hot", word_count |-> 3]
    ELSE [text |-> text, word_count |-> 3]

\* the i-th claim dict of an extraction completion
CompletionClaim(i) ==
    [text |-> <<"claim", i>>,
     time_sensitivity |-> IF i % 2 = 1 THEN "high" ELSE "low"]

ExtractionError == [kind |-> "error", n |-> 0]

ExtractionText == [kind |-> "text", n |-> 0]

\* a completion whose "claims" array holds n claims
ExtractionJson(n) == [kind |-> "json", n |-> n]

\* an extractor that makes a claim of a completion it cannot parse
extract_claims_keeping(text, completion) ==
    [i \in 1..(IF completion.kind = "json" THEN completion.n ELSE 1) |->
        [id |-> i,
         text |-> CompletionClaim(i).text,
         time_sensitivity |-> CompletionClaim(i).time_sensitivity,
         is_verifiable |-> TRUE]]

\* ClaimDecomposerAgent.extract_claims: ids are given in list order
extract_claims(text, completion) ==
    IF completion.kind = "json"
    THEN [i \in 1..completion.n |->
            [id |-> i,
             text |-> CompletionClaim(i).text,
             time_sensitivity |-> CompletionClaim(i).time_sensitivity,
             is_verifiable |-> TRUE]]
    ELSE <<>>

ClassificationError == [kind |-> "error", entries |-> {}]

ClassificationText == [kind |-> "text", entries |-> {}]

\* a completion that parses to entries {claim_id, is_verifiable}; the flag of
\* an entry is "true", "false" or "absent"
ClassificationJson(entries) == [kind |-> "json", entries |-> entries]

\* the truth value Python gives c.get("is_verifiable", True): the flag of an
\* entry is JSON true or false, absent, null, or a non-empty string (such as
\* "false")
Truthy(flag) == flag \in {"true", "absent", "string"}

\* verifiable_ids of filter_claims
VerifiableIds(entries) == {e.claim_id : e \in {x \in entries : Truthy(x.is_verifiable)}}

\* the list filter_claims returns
filter_claims(claims, completion) ==
    IF claims = <<>> THEN <<>>
    ELSE IF completion.kind # "json" THEN claims
    ELSE LET keep == {i \in 1..Len(claims) :
                        claims[i].id \in VerifiableIds(completion.entries)}
             idx == KeysInOrder(keep)
         IN [k \in 1..Len(idx) |-> claims[idx[k]]]

\* the claim dicts of the input list after filter_claims ran: on a parsed
\* completion c["is_verifiable"] is rewritten for every claim
ClaimsAfterFilter(claims, completion) ==
    IF claims = <<>> \/ completion.kind # "json" THEN claims
    ELSE [i \in 1..Len(claims) |->
            [claims[i] EXCEPT !.is_verifiable =
                claims[i].id \in VerifiableIds(completion.entries)]]

PlanningError == [kind |-> "error", n |-> 0]

PlanningText == [kind |-> "text", n |-> 0]

\* a completion that parses to an array of n queries
PlanningJson(n) == [kind |-> "json", n |-> n]

\* claim["text"][:100] as the single query
FallbackQuery(claim) == <<claim.id, 0>>

\* the queries of one claim
ClaimQueries(claim, completion) ==
    IF completion.kind = "error" THEN <<FallbackQuery(claim)>>
    ELSE IF completion.kind = "text" THEN <<FallbackQuery(claim)>>
    ELSE Take([k \in 1..completion.n |-> <<claim.id, k>>], MAX_QUERIES)

\* QueryPlannerAgent.plan_queries; completions[i] is the completion for claims[i]
plan_queries(claims, completions) ==
    IF claims = <<>> THEN EmptyDict
    ELSE [cid \in ClaimIdsOf(claims) |->
            LET i == CHOOSE i \in 1..Len(claims) :
                        /\ claims[i].id = cid
                        /\ \A j \in (i + 1)..Len(claims) : claims[j].id # cid
            IN ClaimQueries(claims[i], completions[i])]

(***************************************************************************)
(* VerificationAgent (verification.py).                                    *)
(***************************************************************************)
\* what awaiting a coroutine gives its caller: a value, or an exception
Returned(value) == [raised |-> FALSE, value |-> value]

Raised == [raised |-> TRUE, value |-> <<>>]

VerdictError == [kind |-> "error", verdict |-> "", confidence |-> 0,
                 supporting_sources |-> <<>>, contradicting_sources |-> <<>>]

VerdictText == [kind |-> "text", verdict |-> "", confidence |-> 0,
                supporting_sources |-> <<>>, contradicting_sources |-> <<>>]

\* a completion that parses to an object whose verdict is no string or whose
\* confidence float() rejects
VerdictBadField == [kind |-> "badfield", verdict |-> "", confidence |-> 0,
                    supporting_sources |-> <<>>, contradicting_sources |-> <<>>]

\* a completion that parses to a verdict object; confidence in thousandths
VerdictJson(verdict, confidence, supporting, contradicting) ==
    [kind |-> "json", verdict |-> verdict, confidence |-> confidence,
     supporting_sources |-> supporting, contradicting_sources |-> contradicting]

\* the fallback verdict of verify_claims
FallbackVerdict(claim_id) ==
    [claim_id |-> claim_id,
     verdict |-> "not_verifiable",
     confidence |-> 0,
     reasoning |-> "Verification failed due to an error.",
     supporting_sources |-> <<>>,
     contradicting_sources |-> <<>>]

\* _verify_single_claim: it raises when the provider call fails, when the
\* completion holds no JSON object, and when a field of the object cannot be
\* normalized; else it returns the normalized object
_verify_single_claim(claim, completion) ==
    IF completion.kind # "json" THEN Raised
    ELSE Returned([verdict |-> completion.verdict,
                   confidence |-> Max(0, Min(ONE, completion.confidence)),
                   reasoning |-> "",
                   supporting_sources |-> completion.supporting_sources,
                   contradicting_sources |-> completion.contradicting_sources])

\* a loop body that leaves a failed claim without a verdict
VerifyTurnDropping(claim, awaited) ==
    IF awaited.raised THEN [raised |-> FALSE, verdicts |-> <<>>]
    ELSE [raised |-> FALSE,
          verdicts |-> <<ItemSet(awaited.value, "claim_id", claim.id)>>]

\* a loop body without the try/except
VerifyTurnUncaught(claim, awaited) ==
    IF awaited.raised THEN [raised |-> TRUE, verdicts |-> <<>>]
    ELSE [raised |-> FALSE,
          verdicts |-> <<ItemSet(awaited.value, "claim_id", claim.id)>>]

\* one turn of the loop of verify_claims: the verdicts it appends, and
\* whether an exception leaves it
VerifyTurn(claim, awaited) ==
    IF awaited.raised THEN [raised |-> FALSE, verdicts |-> <<FallbackVerdict(claim.id)>>]
    ELSE [raised |-> FALSE,
          verdicts |-> <<ItemSet(awaited.value, "claim_id", claim.id)>>]

RECURSIVE VerifyLoop(_, _, _, _)
\* for claim in claims, from the i-th on
VerifyLoop(claims, completions, i, verdicts) ==
    IF i > Len(claims) THEN Returned(verdicts)
    ELSE LET turn == VerifyTurn(claims[i], _verify_single_claim(claims[i], completions[i]))
         IN IF turn.raised THEN Raised
            ELSE VerifyLoop(claims, completions, i + 1, verdicts \o turn.verdicts)

\* VerificationAgent.verify_claims; completions[i] is the completion for
\* claims[i]; what awaiting it gives
verify_claims(claims, completions) ==
    IF claims = <<>> THEN Returned(<<>>)
    ELSE VerifyLoop(claims, completions, 1, <<>>)

(***************************************************************************)
(* ExplanationAgent (explanation.py).                                      *)
(***************************************************************************)
\* the members of the Verdict enum, in declaration order
VerdictEnum == <<"strongly_supported", "supported", "mixed", "weak",
                 "contradicted", "outdated", "not_verifiable">>

\* the members of the TimeSensitivity enum, in declaration order
TimeSensitivityEnum == <<"high", "medium", "low">>

\* the members of the ClaimType enum, in declaration order
ClaimTypeEnum == <<"numeric", "entity", "temporal", "comparative", "causal", "general">>

\* the members of the Vertical enum, in declaration order
VerticalEnum == <<"ecommerce", "saas", "tech", "finance", "health", "education",
                  "professional", "general">>

\* a value read from a dict built from JSON: a string, or a value that is not
\* a string (null, a number)
JsonStr(s) == [type |-> "str", str |-> s]

JsonNull == [type |-> "null", str |-> ""]

JsonNumber == [type |-> "number", str |-> ""]

\* str.lower() on the strings of the model
Lower(s) ==
    CASE s = "ENTITY" -> "entity"
      [] s = "SaaS" -> "saas"
      [] s = "Medium" -> "medium"
      [] s = "SUPPORTED" -> "supported"
      [] OTHER -> s

\* a parser whose default is the last member
_parse_enum_last(enum_class, value) ==
    IF value.type # "str" THEN enum_class[Len(enum_class)]
    ELSE IF Lower(value.str) \in Range(enum_class) THEN Lower(value.str)
    ELSE enum_class[Len(enum_class)]

\* _parse_enum: enum_class(value.lower()); a value without lower()
\* (AttributeError) or with no member of that value (ValueError) gives
\* list(enum_class)[0]
_parse_enum(enum_class, value) ==
    IF value.type # "str" THEN enum_class[1]
    ELSE IF Lower(value.str) \in Range(enum_class) THEN Lower(value.str)
    ELSE enum_class[1]

\* a key the dict does not have
Absent == [type |-> "absent", str |-> ""]

\* d.get(key, default) for a string default
GetOr(value, default) == IF value = Absent THEN JsonStr(default) ELSE value

\* the four enum fields of a ClaimResult, as format_results parses them
EnumFields(claim, verdict_data) ==
    [claim_type |-> _parse_enum(ClaimTypeEnum, GetOr(claim.claim_type, "general")),
     topic |-> _parse_enum(VerticalEnum, GetOr(claim.topic, "general")),
     time_sensitivity |->
         _parse_enum(TimeSensitivityEnum, GetOr(claim.time_sensitivity, "low")),
     verdict |-> _parse_enum(VerdictEnum, GetOr(verdict_data.verdict, "not_verifiable"))]

\* supporting_urls[:5] and contradicting_urls[:3]
MAX_SUPPORTING == 5

MAX_CONTRADICTING == 3

SourceInfo(e, role) == [url |-> e.url, domain_score |-> e.domain_reputation, role |-> role]

\* evidence_by_url[url]: the last item of the list with this url
EvidenceByUrl(evidence, url) ==
    evidence[CHOOSE i \in 1..Len(evidence) :
                /\ evidence[i].url = url
                /\ \A j \in (i + 1)..Len(evidence) : evidence[j].url # url]

\* a loop that presents every declared URL, in the evidence or not
AttributedUnchecked(evidence, urls, role) ==
    [i \in 1..Len(urls) |->
        SourceInfo([url |-> urls[i], domain_reputation |-> NEUTRAL], role)]

RECURSIVE Attributed(_, _, _)
\* for url in urls: if url in evidence_by_url: append SourceInfo(..., role)
Attributed(evidence, urls, role) ==
    IF urls = <<>> THEN <<>>
    ELSE (IF Head(urls) \in UrlsOf(evidence)
          THEN <<SourceInfo(EvidenceByUrl(evidence, Head(urls)), role)>>
          ELSE <<>>)
         \o Attributed(evidence, Tail(urls), role)

\* _build_sources with the fallback items given the role supporting
_build_sources_unlabelled(evidence, supporting_urls, contradicting_urls) ==
    LET supporting == Attributed(evidence, Take(supporting_urls, MAX_SUPPORTING),
                                 "supporting")
        contradicting == Attributed(evidence, Take(contradicting_urls, MAX_CONTRADICTING),
                                    "contradicting")
        top == Take(evidence, 3)
    IN IF supporting = <<>> /\ contradicting = <<>> /\ evidence # <<>>
       THEN [supporting |-> [i \in 1..Len(top) |-> SourceInfo(top[i], "supporting")],
             contradicting |-> contradicting]
       ELSE [supporting |-> supporting, contradicting |-> contradicting]

_build_sources(evidence, supporting_urls, contradicting_urls) ==
    LET supporting == Attributed(evidence, Take(supporting_urls, MAX_SUPPORTING),
                                 "supporting")
        contradicting == Attributed(evidence, Take(contradicting_urls, MAX_CONTRADICTING),
                                    "contradicting")
        top == Take(evidence, 3)
    IN IF supporting = <<>> /\ contradicting = <<>> /\ evidence # <<>>
       THEN [supporting |-> [i \in 1..Len(top) |-> SourceInfo(top[i], "neutral")],
             contradicting |-> contradicting]
       ELSE [supporting |-> supporting, contradicting |-> contradicting]

\* verdicts_by_claim.get(claim_id, {}) read with the defaults of format_results
VerdictData(verdicts, claim_id) ==
    IF \E i \in 1..Len(verdicts) : verdicts[i].claim_id = claim_id
    THEN verdicts[CHOOSE i \in 1..Len(verdicts) :
                     /\ verdicts[i].claim_id = claim_id
                     /\ \A j \in (i + 1)..Len(verdicts) : verdicts[j].claim_id # claim_id]
    ELSE [claim_id |-> claim_id,
          verdict |-> "not_verifiable",
          confidence |-> 0,
          reasoning |-> "Unable to verify this claim.",
          supporting_sources |-> <<>>,
          contradicting_sources |-> <<>>]

\* evidence.get(claim_id, [])
DictGet(d, k) == IF k \in DOMAIN d THEN d[k] ELSE <<>>

ClaimResult(claim, verdict_data, claim_evidence) ==
    [id |-> claim.id,
     text |-> claim.text,
     time_sensitivity |-> _parse_enum(TimeSensitivityEnum, JsonStr(claim.time_sensitivity)),
     verdict |-> _parse_enum(VerdictEnum, JsonStr(verdict_data.verdict)),
     confidence |-> verdict_data.confidence,
     reasoning |-> verdict_data.reasoning,
     sources |-> _build_sources(claim_evidence,
                                verdict_data.supporting_sources,
                                verdict_data.contradicting_sources)]

format_results(claims, verdicts, evidence) ==
    [i \in 1..Len(claims) |->
        ClaimResult(claims[i], VerdictData(verdicts, claims[i].id),
                    DictGet(evidence, claims[i].id))]

(***************************************************************************)
(* VerificationService._calculate_page_score, in exact fixed-point         *)
(* arithmetic: claim scores in ten-thousandths, weights in thousandths.    *)
(***************************************************************************)
\* verdict_weights.get(verdict, 0.5), in thousandths
VerdictWeight(verdict) ==
    CASE verdict = "strongly_supported" -> 1000
      [] verdict = "supported" -> 850
      [] verdict = "mixed" -> 500
      [] verdict = "weak" -> 350
      [] verdict = "contradicted" -> 100
      [] verdict = "outdated" -> 400
      [] verdict = "not_verifiable" -> 500
      [] OTHER -> 500

\* 1.0 + 0.3 / (i + 1) for the claim at index i (from 0), in thousandths
PositionWeight(i) == 1000 + (300 \div (i + 1))

\* (supporting / total) ** 0.7 * 0.15 in ten-thousandths, rounded, for up to
\* 5 supporting and 3 contradicting sources
SupportBonus(s, c) ==
    IF s = 0 THEN 0
    ELSE IF c = 0 THEN 1500
    ELSE CASE s = 1 -> (CASE c = 1 -> 923 [] c = 2 -> 695 [] OTHER -> 568)
           [] s = 2 -> (CASE c = 1 -> 1129 [] c = 2 -> 923 [] OTHER -> 790)
           [] s = 3 -> (CASE c = 1 -> 1226 [] c = 2 -> 1049 [] OTHER -> 923)
           [] s = 4 -> (CASE c = 1 -> 1283 [] c = 2 -> 1129 [] OTHER -> 1014)
           [] OTHER -> (CASE c = 1 -> 1320 [] c = 2 -> 1185 [] OTHER -> 1079)

\* min(0.15, 0.08 * math.log(supporting_count + 1)) in ten-thousandths, rounded
SourceBonus(s) ==
    CASE s = 0 -> 0 [] s = 1 -> 555 [] s = 2 -> 879 [] s = 3 -> 1109
      [] s = 4 -> 1288 [] s = 5 -> 1433 [] OTHER -> 1500

\* final_score with the confidence multiplier taken the wrong way round
ClaimFinalScoreInverted(claim) ==
    LET s == Len(claim.sources.supporting)
        c == Len(claim.sources.contradicting)
        base_score == (VerdictWeight(claim.verdict) * (ONE - claim.confidence)) \div 100
    IN IF s + c > 0
       THEN Min(10000, base_score + SupportBonus(s, c) + SourceBonus(s))
       ELSE base_score

\* final_score of one claim, in ten-thousandths
ClaimFinalScore(claim) ==
    LET s == Len(claim.sources.supporting)
        c == Len(claim.sources.contradicting)
        base_score == (VerdictWeight(claim.verdict) * claim.confidence) \div 100
    IN IF s + c > 0
       THEN Min(10000, base_score + SupportBonus(s, c) + SourceBonus(s))
       ELSE base_score

RECURSIVE SumOver(_, _, _)
\* the sum of f[i] for i in lo..hi
SumOver(f, lo, hi) == IF lo > hi THEN 0 ELSE f[lo] + SumOver(f, lo + 1, hi)

\* int(min(10, 2 * math.log(total_supporting))) for 5 to 20 supporting sources
GlobalBonusHigh(total_supporting) ==
    IF total_supporting < 8 THEN 3
    ELSE IF total_supporting < 13 THEN 4
    ELSE 5

\* int(min(8, 1.5 * math.log(total_supporting))) for 3 or 4 supporting sources
GlobalBonusLow(total_supporting) == IF total_supporting = 3 THEN 1 ELSE 2

\* total_supporting after the loop
TotalSupporting(claims) ==
    SumOver([i \in 1..Len(claims) |-> Len(claims[i].sources.supporting)], 1, Len(claims))

\* total_contradicting after the loop
TotalContradicting(claims) ==
    SumOver([i \in 1..Len(claims) |-> Len(claims[i].sources.contradicting)], 1, Len(claims))

\* int((weighted_sum / total_weight) * 100) for a non-empty list
BasePageScore(claims) ==
    LET n == Len(claims)
        weighted_sum ==
            SumOver([i \in 1..n |-> ClaimFinalScore(claims[i]) * PositionWeight(i - 1)],
                    1, n)
        total_weight == SumOver([i \in 1..n |-> PositionWeight(i - 1)], 1, n)
    IN weighted_sum \div (total_weight * 100)

\* the global bonus with the conditions on the ratio taken the other way
\* round: 0.8 with 5 sources, 0.7 with 3
GlobalBonusSwapped(total_supporting, total_contradicting) ==
    LET total_sources == total_supporting + total_contradicting
    IN IF total_supporting = 0 THEN 0
       ELSE IF 10 * total_supporting >= 8 * total_sources /\ total_supporting >= 5
       THEN GlobalBonusHigh(total_supporting)
       ELSE IF 10 * total_supporting >= 7 * total_sources /\ total_supporting >= 3
       THEN GlobalBonusLow(total_supporting)
       ELSE 0

\* what "Apply global source bonus" adds to base_page_score
GlobalBonus(total_supporting, total_contradicting) ==
    LET total_sources == total_supporting + total_contradicting
    IN IF total_supporting = 0 THEN 0
       ELSE IF 10 * total_supporting >= 7 * total_sources /\ total_supporting >= 5
       THEN GlobalBonusHigh(total_supporting)
       ELSE IF 10 * total_supporting >= 8 * total_sources /\ total_supporting >= 3
       THEN GlobalBonusLow(total_supporting)
       ELSE 0

\* the page score without the final min(100, max(0, ...))
_calculate_page_score_uncapped(claims) ==
    IF claims = <<>> THEN 50
    ELSE BasePageScore(claims)
         + GlobalBonus(TotalSupporting(claims), TotalContradicting(claims))

_calculate_page_score(claims) ==
    IF claims = <<>> THEN 50
    ELSE Min(100, Max(0, BasePageScore(claims)
                         + GlobalBonus(TotalSupporting(claims),
                                       TotalContradicting(claims))))

(***************************************************************************)
(* State.                                                                  *)
(***************************************************************************)
VARIABLES
    state,      \* the PipelineState of the run
    pc,         \* the node the graph runs next; "END"; "done"; "raised"
    trace,      \* the stages that ran, in order
    failure,    \* what failed in the stage that ran last: "none"; "handled"
                \* (the agent caught a failure of its own); "raised" (the
                \* agent raised to its wrapper)
    response,   \* what VerificationService.verify returned, once it has
    fetch,      \* one call of RetrievalAgent.fetch_evidence
    search,     \* one call of RetrievalAgent._search
    rank,       \* one call of EvidenceRankerAgent.rank_evidence
    called      \* one call of another agent method, taken on its own

vars == <<state, pc, trace, failure, response, fetch, search, rank, called>>

\* the parts of the state a specification does not use
Idle == [phase |-> "idle"]

(***************************************************************************)
(* VerificationPipeline (pipeline.py).                                     *)
(***************************************************************************)
\* initial_state of run
initial_state(text) ==
    [raw_text |-> text,
     url |-> "",
     vertical |-> "general",
     language |-> "en",
     clean_text |-> "",
     word_count |-> 0,
     extracted_claims |-> <<>>,
     verifiable_claims |-> <<>>,
     search_queries |-> EmptyDict,
     raw_evidence |-> EmptyDict,
     ranked_evidence |-> EmptyDict,
     verdicts |-> <<>>,
     claims |-> <<>>,
     models_used |-> <<>>,
     sources_checked |-> 0,
     errors |-> <<>>]

\* the edges of _build_graph, and the page score that follows run in verify
\* a graph whose query_planning node is wired past retrieval
EdgeSkippingRetrieval(node) ==
    CASE node = "ingestion" -> "claim_decomposition"
      [] node = "claim_decomposition" -> "claim_classification"
      [] node = "claim_classification" -> "query_planning"
      [] node = "query_planning" -> "evidence_ranking"
      [] node = "retrieval" -> "evidence_ranking"
      [] node = "evidence_ranking" -> "verification"
      [] node = "verification" -> "explanation"
      [] node = "explanation" -> "END"

Edge(node) ==
    CASE node = "ingestion" -> "claim_decomposition"
      [] node = "claim_decomposition" -> "claim_classification"
      [] node = "claim_classification" -> "query_planning"
      [] node = "query_planning" -> "retrieval"
      [] node = "retrieval" -> "evidence_ranking"
      [] node = "evidence_ranking" -> "verification"
      [] node = "verification" -> "explanation"
      [] node = "explanation" -> "END"

\* what a wrapper gives the graph: the state, and whether an exception left it
Caught(st) == [st |-> st, exc |-> FALSE]

_run_ingestion(st, call) ==
    IF ~call.raised
    THEN Caught([st EXCEPT !.clean_text = call.value.text,
                           !.word_count = call.value.word_count])
    ELSE Caught([st EXCEPT !.errors = Append(@, "Ingestion error"),
                           !.clean_text = st.raw_text])

\* a decomposition wrapper whose except clause records nothing
_run_claim_decomposition_silent(st, call) ==
    IF ~call.raised
    THEN Caught([st EXCEPT !.extracted_claims = call.value,
                           !.models_used = Append(@, "llama-3.3-70b-versatile")])
    ELSE Caught([st EXCEPT !.extracted_claims = <<>>])

\* a decomposition wrapper that records the model before the call returns
_run_claim_decomposition_crediting(st, call) ==
    IF ~call.raised
    THEN Caught([st EXCEPT !.extracted_claims = call.value,
                           !.models_used = Append(@, "llama-3.3-70b-versatile")])
    ELSE Caught([st EXCEPT !.errors = Append(@, "Claim decomposition error"),
                           !.extracted_claims = <<>>,
                           !.models_used = Append(@, "llama-3.3-70b-versatile")])

\* call.value: the claims extract_claims returned
_run_claim_decomposition(st, call) ==
    IF ~call.raised
    THEN Caught([st EXCEPT !.extracted_claims = call.value,
                           !.models_used = Append(@, "llama-3.3-70b-versatile")])
    ELSE Caught([st EXCEPT !.errors = Append(@, "Claim decomposition error"),
                           !.extracted_claims = <<>>])

\* call.value: the list filter_claims returned, and the claim dicts of its
\* input as it left them
_run_claim_classification(st, call) ==
    IF ~call.raised
    THEN Caught([st EXCEPT !.verifiable_claims = call.value.verifiable,
                           !.extracted_claims = call.value.claims])
    ELSE Caught([st EXCEPT !.errors = Append(@, "Classification error"),
                           !.verifiable_claims = st.extracted_claims])

\* a planning wrapper that drops the claims that got no query
_run_query_planning_dropping(st, call) ==
    IF ~call.raised
    THEN LET Planned(c) == c.id \in DOMAIN call.value /\ call.value[c.id] # <<>>
         IN Caught([st EXCEPT !.search_queries = call.value,
                              !.verifiable_claims = SelectSeq(@, Planned)])
    ELSE Caught([st EXCEPT !.errors = Append(@, "Query planning error")])

_run_query_planning(st, call) ==
    IF ~call.raised
    THEN Caught([st EXCEPT !.search_queries = call.value])
    ELSE Caught([st EXCEPT !.errors = Append(@, "Query planning error")])

\* sum(len(e) for e in evidence.values())
TotalSources(evidence) ==
    LET keys == KeysInOrder(DOMAIN evidence)
    IN SumOver([i \in 1..Len(keys) |-> Len(evidence[keys[i]])], 1, Len(keys))

\* a retrieval wrapper without its except clause
_run_retrieval_uncaught(st, call) ==
    IF ~call.raised
    THEN Caught([st EXCEPT !.raw_evidence = call.value,
                           !.sources_checked = TotalSources(call.value)])
    ELSE [st |-> st, exc |-> TRUE]

_run_retrieval(st, call) ==
    IF ~call.raised
    THEN Caught([st EXCEPT !.raw_evidence = call.value,
                           !.sources_checked = TotalSources(call.value)])
    ELSE Caught([st EXCEPT !.errors = Append(@, "Retrieval error")])

\* a ranking stage whose ranker scores copies of the items
_run_evidence_ranking_copying(st, call) ==
    IF ~call.raised
    THEN Caught([st EXCEPT !.ranked_evidence = call.value.ranked])
    ELSE Caught([st EXCEPT !.errors = Append(@, "Ranking error"),
                           !.ranked_evidence = st.raw_evidence])

\* call.value: the dict rank_evidence returned, and the evidence dict whose
\* items it scored in place
_run_evidence_ranking(st, call) ==
    IF ~call.raised
    THEN Caught([st EXCEPT !.ranked_evidence = call.value.ranked,
                           !.raw_evidence = call.value.evidence])
    ELSE Caught([st EXCEPT !.errors = Append(@, "Ranking error"),
                           !.ranked_evidence = st.raw_evidence])

_run_verification(st, call) ==
    IF ~call.raised
    THEN Caught([st EXCEPT !.verdicts = call.value])
    ELSE Caught([st EXCEPT !.errors = Append(@, "Verification error")])

_run_explanation(st, call) ==
    IF ~call.raised
    THEN Caught([st EXCEPT !.claims = call.value])
    ELSE Caught([st EXCEPT !.errors = Append(@, "Explanation error"),
                           !.claims = <<>>])

(***************************************************************************)
(* The inputs of a pipeline run.                                           *)
(***************************************************************************)
RawTexts == {"<b>Tea  is hot</b>"}

\* the snippet the provider gives for a result in a pipeline run
PageSnippet == "s"

\* the URLs the searches of a pipeline run may list
PipelineUrls == {"https://en.wikipedia.org/a", "https://medium.com/b"}

ExtractionCompletions ==
    {ExtractionError, ExtractionText} \cup {ExtractionJson(n) : n \in 0..MaxClaims}

ClassificationCompletions(claims) ==
    {ClassificationError, ClassificationText} \cup
    {ClassificationJson(entries) :
        entries \in SUBSET [claim_id : ClaimIdsOf(claims),
                            is_verifiable : {"true", "false", "absent"}]}

PlanningCompletions ==
    {PlanningError, PlanningText} \cup {PlanningJson(n) : n \in 0..MaxPlanned}

RelevanceCompletions == {RelevanceError, RelevanceNumber(900)}

\* one relevance completion for every item of every claim
RelevanceCompletionsFor(evidence) ==
    {f \in [DOMAIN evidence -> SeqsUpTo(RelevanceCompletions, Cardinality(Urls))] :
        \A cid \in DOMAIN evidence : Len(f[cid]) = Len(evidence[cid])}

VerdictCompletions ==
    {VerdictError,
     VerdictJson("supported", 800, <<"https://en.wikipedia.org/a">>, <<>>),
     VerdictJson("contradicted", 1200, <<>>, <<"https://medium.com/b">>),
     VerdictJson("mixed", 500, <<>>, <<>>)}

(***************************************************************************)
(* One request: VerificationService.verify.                                *)
(***************************************************************************)
Init ==
    /\ state \in {initial_state(text) : text \in RawTexts}
    /\ pc = "ingestion"
    /\ trace = <<>>
    /\ failure = "none"
    /\ response = <<>>
    /\ fetch = Idle
    /\ search = Idle
    /\ rank = Idle
    /\ called = Idle

\* the graph runs one node: out is what the node's wrapper gave; noted is
\* what is remembered of the provider's answers
NodeStepNoting(node, out, failedInside, agentRaised, noted) ==
    /\ state' = out.st
    /\ pc' = IF out.exc THEN "raised" ELSE Edge(node)
    /\ trace' = Append(trace, node)
    /\ failure' = IF agentRaised THEN "raised"
                  ELSE IF failedInside THEN "handled"
                  ELSE "none"
    /\ called' = noted
    /\ UNCHANGED <<response, fetch, search, rank>>

NodeStep(node, out, failedInside, agentRaised) ==
    NodeStepNoting(node, out, failedInside, agentRaised, called)

\* the kind of the extraction completion of the run
Extraction(kind) == [phase |-> "idle", extraction |-> kind]

Ingestion ==
    /\ pc = "ingestion"
    /\ \/ NodeStep("ingestion",
                   _run_ingestion(state, Returned(process(state.raw_text))),
                   FALSE, FALSE)
       \/ NodeStep("ingestion", _run_ingestion(state, Raised), FALSE, TRUE)

ClaimDecomposition ==
    /\ pc = "claim_decomposition"
    /\ \/ \E completion \in ExtractionCompletions :
            NodeStepNoting("claim_decomposition",
                           _run_claim_decomposition(
                               state,
                               Returned(extract_claims(state.clean_text, completion))),
                           completion.kind # "json", FALSE, Extraction(completion.kind))
       \/ NodeStepNoting("claim_decomposition",
                         _run_claim_decomposition(state, Raised), FALSE, TRUE,
                         Extraction("raised"))

ClaimClassification ==
    /\ pc = "claim_classification"
    /\ \/ \E completion \in ClassificationCompletions(state.extracted_claims) :
            NodeStep("claim_classification",
                     _run_claim_classification(
                         state,
                         Returned([verifiable |->
                                       filter_claims(state.extracted_claims, completion),
                                   claims |->
                                       ClaimsAfterFilter(state.extracted_claims,
                                                         completion)])),
                     state.extracted_claims # <<>> /\ completion.kind # "json", FALSE)
       \/ NodeStep("claim_classification",
                   _run_claim_classification(state, Raised), FALSE, TRUE)

QueryPlanning ==
    /\ pc = "query_planning"
    /\ \/ \E completions \in [1..Len(state.verifiable_claims) -> PlanningCompletions] :
            NodeStep("query_planning",
                     _run_query_planning(
                         state, Returned(plan_queries(state.verifiable_claims, completions))),
                     \E i \in 1..Len(state.verifiable_claims) : completions[i].kind # "json",
                     FALSE)
       \/ NodeStep("query_planning", _run_query_planning(state, Raised), FALSE, TRUE)

Retrieval ==
    /\ pc = "retrieval"
    /\ \/ LET tasks == Tasks(state.search_queries)
          IN \E outcome \in [1..Len(tasks) -> SearchOutcomes(PipelineUrls, MaxResults)] :
                NodeStep("retrieval",
                         _run_retrieval(
                             state,
                             Returned(fetch_evidence(
                                 state.search_queries,
                                 [t \in 1..Len(tasks) |->
                                     SearchResult(outcome[t], PageSnippet)]))),
                         \E t \in 1..Len(tasks) : outcome[t].exc, FALSE)
       \/ NodeStep("retrieval", _run_retrieval(state, Raised), FALSE, TRUE)

EvidenceRanking ==
    /\ pc = "evidence_ranking"
    /\ \/ \E completions \in RelevanceCompletionsFor(state.raw_evidence) :
            NodeStep("evidence_ranking",
                     _run_evidence_ranking(
                         state,
                         Returned([ranked |->
                                       rank_evidence(state.verifiable_claims,
                                                     state.raw_evidence, completions,
                                                     MAX_EVIDENCE_PER_CLAIM),
                                   evidence |->
                                       ScoredEvidence(state.verifiable_claims,
                                                      state.raw_evidence, completions)])),
                     FALSE, FALSE)
       \/ NodeStep("evidence_ranking", _run_evidence_ranking(state, Raised), FALSE, TRUE)

Verification ==
    /\ pc = "verification"
    /\ \/ \E completions \in [1..Len(state.verifiable_claims) -> VerdictCompletions] :
            LET awaited == verify_claims(state.verifiable_claims, completions)
            IN NodeStep("verification", _run_verification(state, awaited),
                        FALSE, awaited.raised)
       \/ NodeStep("verification", _run_verification(state, Raised), FALSE, TRUE)

Explanation ==
    /\ pc = "explanation"
    /\ \/ NodeStep("explanation",
                   _run_explanation(
                       state,
                       Returned(format_results(state.verifiable_claims, state.verdicts,
                                               state.ranked_evidence))),
                   FALSE, FALSE)
       \/ NodeStep("explanation", _run_explanation(state, Raised), FALSE, TRUE)

\* run returns its dict; verify computes the page score and returns
PageScore ==
    /\ pc = "END"
    /\ response' = <<[claims |-> state.claims,
                      page_score |-> _calculate_page_score(state.claims),
                      models_used |-> state.models_used,
                      sources_checked |-> state.sources_checked]>>
    /\ pc' = "done"
    /\ trace' = Append(trace, "page_score")
    /\ failure' = "none"
    /\ UNCHANGED <<state, fetch, search, rank, called>>

Next ==
    \/ Ingestion
    \/ ClaimDecomposition
    \/ ClaimClassification
    \/ QueryPlanning
    \/ Retrieval
    \/ EvidenceRanking
    \/ Verification
    \/ Explanation
    \/ PageScore

Spec == Init /\ [][Next]_vars

(***************************************************************************)
(* Properties of a pipeline run (Spec).                                    *)
(***************************************************************************)
Nodes == {"ingestion", "claim_decomposition", "claim_classification", "query_planning",
          "retrieval", "evidence_ranking", "verification", "explanation"}

StageOrder == <<"ingestion", "claim_decomposition", "claim_classification",
                "query_planning", "retrieval", "evidence_ranking", "verification",
                "explanation", "page_score">>

\* C1: no exception leaves a stage wrapper or run, whichever agents raise:
\* every wrapper hands the graph a PipelineState, and once verify is done run
\* has returned a dict holding claims, models_used and sources_checked.
C1_RunNeverRaises ==
    /\ pc \in Nodes \cup {"END", "done"}
    /\ DOMAIN state = DOMAIN initial_state("")
    /\ pc = "done" =>
          /\ Len(response) = 1
          /\ {"claims", "models_used", "sources_checked"} \subseteq DOMAIN response[1]
          /\ response[1].claims = state.claims
          /\ response[1].models_used = state.models_used
          /\ response[1].sources_checked = state.sources_checked

\* C1 witness: a run in which the agent of every one of the eight stages
\* raised has returned.
C1_Witness == pc = "done" /\ Len(state.errors) = 8 /\ Len(response) = 1

\* C2: the nine stages run in the fixed order, each once: what has run is
\* always a prefix of the order, the next node is the next of the order, and
\* a finished request ran all nine.
C2_FixedOrder ==
    /\ Len(trace) <= Len(StageOrder)
    /\ trace = SubSeq(StageOrder, 1, Len(trace))
    /\ pc \in Nodes => pc = StageOrder[Len(trace) + 1]
    /\ pc = "END" => Len(trace) = 8
    /\ pc = "done" <=> trace = StageOrder

\* C2 witness: a request ran all nine stages although its first stage and a
\* later one failed.
C2_Witness ==
    /\ pc = "done"
    /\ Len(state.errors) >= 2
    /\ state.errors[1] = "Ingestion error"

\* the entry a wrapper appends to state.errors
ErrorEntry(node) ==
    CASE node = "ingestion" -> "Ingestion error"
      [] node = "claim_decomposition" -> "Claim decomposition error"
      [] node = "claim_classification" -> "Classification error"
      [] node = "query_planning" -> "Query planning error"
      [] node = "retrieval" -> "Retrieval error"
      [] node = "evidence_ranking" -> "Ranking error"
      [] node = "verification" -> "Verification error"
      [] OTHER -> "Explanation error"

WrapperDefault(node, before, after) ==
    CASE node = "ingestion" -> after.clean_text = before.raw_text
      [] node = "claim_decomposition" -> after.extracted_claims = <<>>
      [] node = "claim_classification" -> after.verifiable_claims = before.extracted_claims
      [] node = "query_planning" -> after.search_queries = before.search_queries
      [] node = "retrieval" -> after.raw_evidence = before.raw_evidence
      [] node = "evidence_ranking" -> after.ranked_evidence = before.raw_evidence
      [] node = "verification" -> after.verdicts = before.verdicts
      [] OTHER -> after.claims = <<>>

\* the safe default of a stage whose agent caught a failure of its own
AgentDefault(node, before, after) ==
    CASE node = "claim_decomposition" -> after.extracted_claims = <<>>
      [] node = "claim_classification" ->
            /\ after.verifiable_claims = before.extracted_claims
            /\ after.extracted_claims = before.extracted_claims
      [] node = "query_planning" ->
            /\ DOMAIN after.search_queries = ClaimIdsOf(before.verifiable_claims)
            /\ \E i \in 1..Len(before.verifiable_claims) :
                  after.search_queries[before.verifiable_claims[i].id]
                      = <<FallbackQuery(before.verifiable_claims[i])>>
      [] node = "retrieval" ->
            DOMAIN after.raw_evidence =
                {cid \in DOMAIN before.search_queries : before.search_queries[cid] # <<>>}
      [] OTHER -> FALSE

C9_RankedWithinMax ==
    \A cid \in DOMAIN state.ranked_evidence :
        Len(state.ranked_evidence[cid]) <= MAX_EVIDENCE_PER_CLAIM

(***************************************************************************)
(* One call of RetrievalAgent.fetch_evidence, search by search (SpecFetch). *)
(* fetch.status[t] is where the coroutine limited_search of task t is:     *)
(* "pending" before it holds the semaphore, "running" while it awaits its  *)
(* search inside "async with semaphore", "done" once it left the block.    *)
(***************************************************************************)
\* the dicts of planned queries fetch_evidence may be given
FetchQueries ==
    UNION {{[cid \in S |-> [k \in 1..n[cid] |-> <<cid, k>>]] : n \in [S -> 0..MaxPlanned]} :
              S \in SUBSET (1..MaxClaims)}

\* the tasks whose search is in flight
Running(status) == {t \in 1..Len(status) : status[t] = "running"}

\* "async with semaphore" without the wait for a free slot
acquire_unlimited(permits) == TRUE

\* Semaphore.acquire returns at once only while the counter is positive
acquire(permits) == permits > 0

\* gather without return_exceptions: the first exception leaves the await
gather_propagating(results, order) ==
    [raised |-> \E t \in 1..Len(results) : results[t].exc, results |-> results]

\* results in the order the searches completed
gather_as_completed(results, order) ==
    [raised |-> FALSE, results |-> [i \in 1..Len(order) |-> results[order[i]]]]

\* asyncio.gather(..., return_exceptions=True): never raises, and gives the
\* results in the order of the awaitables, whatever order they completed in
gather(results, order) == [raised |-> FALSE, results |-> results]

InitFetch ==
    /\ state = initial_state("")
    /\ pc = "idle"
    /\ trace = <<>>
    /\ failure = "none"
    /\ response = <<>>
    /\ search = Idle
    /\ rank = Idle
    /\ called = Idle
    /\ \E queries \in FetchQueries :
          fetch = [phase |-> "gather",
                   queries |-> queries,
                   status |-> [t \in 1..Len(Tasks(queries)) |-> "pending"],
                   results |-> [t \in 1..Len(Tasks(queries)) |-> SearchReturned(<<>>)],
                   order |-> <<>>,
                   permits |-> SEMAPHORE_SLOTS,
                   evidence |-> EmptyDict]

\* limited_search of task t enters "async with semaphore" and starts its
\* search; the coroutines reach the semaphore in task order
FetchStart(t) ==
    /\ fetch.phase = "gather"
    /\ fetch.status[t] = "pending"
    /\ \A u \in 1..(t - 1) : fetch.status[u] # "pending"
    /\ acquire(fetch.permits)
    /\ fetch' = [fetch EXCEPT !.status[t] = "running", !.permits = @ - 1]
    /\ UNCHANGED <<state, pc, trace, failure, response, search, rank, called>>

\* the search of task t returns or raises; leaving the block releases the slot
FetchFinish(t) ==
    /\ fetch.phase = "gather"
    /\ fetch.status[t] = "running"
    /\ \E outcome \in SearchOutcomes(PipelineUrls, MaxResults) :
          fetch' = [fetch EXCEPT
                       !.status[t] = "done",
                       !.results[t] = SearchResult(outcome, Tasks(fetch.queries)[t].query),
                       !.order = Append(@, t),
                       !.permits = @ + 1]
    /\ UNCHANGED <<state, pc, trace, failure, response, search, rank, called>>

\* gather is through: the loop over zip(claim_query_map, results) and return
FetchReturn ==
    /\ fetch.phase = "gather"
    /\ \A t \in 1..Len(fetch.status) : fetch.status[t] = "done"
    /\ LET gathered == gather(fetch.results, fetch.order)
       IN fetch' = IF gathered.raised THEN [fetch EXCEPT !.phase = "raised"]
                   ELSE [fetch EXCEPT
                            !.phase = "returned",
                            !.evidence = fetch_evidence(fetch.queries, gathered.results)]
    /\ UNCHANGED <<state, pc, trace, failure, response, search, rank, called>>

NextFetch ==
    \/ \E t \in 1..Len(fetch.status) : FetchStart(t)
    \/ \E t \in 1..Len(fetch.status) : FetchFinish(t)
    \/ FetchReturn

SpecFetch == InitFetch /\ [][NextFetch]_vars

(***************************************************************************)
(* Properties of fetch_evidence (SpecFetch).                               *)
(***************************************************************************)
\* the tasks of one claim, in the order of its query list
TasksOfClaim(cid) ==
    {t \in 1..Len(fetch.results) : Tasks(fetch.queries)[t].claim_id = cid}

\* C4: in the dict fetch_evidence returns, no two items in the list of one
\* claim have the same url.
C4_NoDuplicateUrl ==
    fetch.phase = "returned" =>
        \A cid \in DOMAIN fetch.evidence :
            \A i, j \in 1..Len(fetch.evidence[cid]) :
                i # j => fetch.evidence[cid][i].url # fetch.evidence[cid][j].url

\* C4 witness: fetch_evidence returned after two queries of one claim listed
\* the same URL and one of them listed it twice.
C4_Witness ==
    /\ fetch.phase = "returned"
    /\ \E cid \in DOMAIN fetch.evidence : \E t, u \in TasksOfClaim(cid) :
          /\ t # u
          /\ Len(fetch.results[t].items) = 2
          /\ fetch.results[t].items[1].url = fetch.results[t].items[2].url
          /\ fetch.results[t].items[1].url \in UrlsOf(fetch.results[u].items)
          /\ Len(fetch.evidence[cid]) = 1

\* C5: never more than 3 searches are in flight, and a search is in flight
\* only while its coroutine holds one of the 3 slots of the semaphore.
C5_AtMostThreeInFlight ==
    /\ Cardinality(Running(fetch.status)) <= SEMAPHORE_SLOTS
    /\ fetch.permits >= 0
    /\ fetch.permits + Cardinality(Running(fetch.status)) = SEMAPHORE_SLOTS

\* C5 witness: three searches are in flight and a fourth coroutine waits for
\* a slot.
C5_Witness ==
    /\ Cardinality(Running(fetch.status)) = SEMAPHORE_SLOTS
    /\ fetch.permits = 0
    /\ \E t \in 1..Len(fetch.status) : fetch.status[t] = "pending"

\* the results with every raised search replaced by an empty list
FailedAsEmpty(results) ==
    [t \in 1..Len(results) |-> IF results[t].exc THEN SearchReturned(<<>>) ELSE results[t]]

\* C6: when searches raise, fetch_evidence still returns, and returns what
\* it would return had each failing search given an empty list.
C6_FailedSearchIsEmpty ==
    /\ fetch.phase # "raised"
    /\ fetch.phase = "returned" =>
           fetch.evidence = fetch_evidence(fetch.queries, FailedAsEmpty(fetch.results))

\* C6 witness: fetch_evidence returned evidence for a claim one of whose
\* searches raised and another of whose searches found items.
C6_Witness ==
    /\ fetch.phase = "returned"
    /\ \E cid \in DOMAIN fetch.evidence : \E t, u \in TasksOfClaim(cid) :
          /\ fetch.results[t].exc
          /\ ~fetch.results[u].exc
          /\ fetch.results[u].items # <<>>
          /\ fetch.evidence[cid] # <<>>

\* the first place a URL is listed for a claim: the earliest query of the
\* claim's list whose search listed it, and the first position in that result
FirstListing(cid, url) ==
    LET t == CHOOSE t \in TasksOfClaim(cid) :
                 /\ ~fetch.results[t].exc
                 /\ url \in UrlsOf(fetch.results[t].items)
                 /\ \A u \in TasksOfClaim(cid) :
                        (~fetch.results[u].exc /\ url \in UrlsOf(fetch.results[u].items))
                            => t <= u
        i == CHOOSE i \in 1..Len(fetch.results[t].items) :
                 /\ fetch.results[t].items[i].url = url
                 /\ \A j \in 1..(i - 1) : fetch.results[t].items[j].url # url
    IN [task |-> t, pos |-> i, item |-> fetch.results[t].items[i]]

\* the URLs the searches of a claim listed
ListedUrls(cid) ==
    UNION {UrlsOf(fetch.results[t].items) : t \in {u \in TasksOfClaim(cid) : ~fetch.results[u].exc}}

\* C7: of the items that share a URL the one of the earliest query of the
\* claim's list is kept, in the order of first listing, so the evidence is
\* fixed by the queries and their results, whatever order the searches
\* completed in.
C7_FirstSeenWins ==
    fetch.phase = "returned" =>
        /\ DOMAIN fetch.evidence = {cid \in DOMAIN fetch.queries : fetch.queries[cid] # <<>>}
        /\ \A cid \in DOMAIN fetch.evidence :
              LET list == fetch.evidence[cid]
              IN /\ UrlsOf(list) = ListedUrls(cid)
                 /\ Len(list) = Cardinality(ListedUrls(cid))
                 /\ \A i \in 1..Len(list) : list[i] = FirstListing(cid, list[i].url).item
                 /\ \A i, j \in 1..Len(list) :
                       i < j =>
                          LET a == FirstListing(cid, list[i].url)
                              b == FirstListing(cid, list[j].url)
                          IN a.task < b.task \/ (a.task = b.task /\ a.pos < b.pos)

\* C7 witness: the second query of a claim completed before the first, both
\* listed the same URL, and fetch_evidence returned.
C7_Witness ==
    /\ fetch.phase = "returned"
    /\ \E cid \in DOMAIN fetch.evidence : \E t, u \in TasksOfClaim(cid) :
          /\ t < u
          /\ \E i, j \in 1..Len(fetch.order) :
                i < j /\ fetch.order[i] = u /\ fetch.order[j] = t
          /\ fetch.results[t].items # <<>>
          /\ fetch.results[u].items # <<>>
          /\ fetch.results[t].items[1].url = fetch.results[u].items[1].url
          /\ fetch.evidence[cid][1] = fetch.results[t].items[1]

(***************************************************************************)
(* One call of RetrievalAgent._search (SpecSearch): the provider is        *)
(* selected by the agent's configuration, called, and its result returned. *)
(***************************************************************************)
\* the configurations of a RetrievalAgent: "" is an unset key
SearchConfigs ==
    [use_free_search : BOOLEAN,
     serpapi_key : {"", "key"},
     google_api_key : {"", "key"},
     google_cse_id : {"", "cx"}]

\* a query is an element of the list the planner parsed from the completion:
\* a string, or another JSON value
SearchQueryKinds == {"str", "other"}

\* the two items of _mock_search; the dates are fixed strings, whose age
\* depends on the day of the run
MockItems ==
    <<[url |-> "https://example.com/article/h",
       snippet |-> "mock",
       domain_reputation |-> 600,
       published_at |-> DatedAt(1000),
       relevance_score |-> 700],
      [url |-> "https://trusted-source.org/data/h",
       snippet |-> "mock",
       domain_reputation |-> 850,
       published_at |-> DatedAt(1000),
       relevance_score |-> 800]>>

\* _mock_search: query[:50] raises TypeError for a query that is no string
_mock_search(query_kind) ==
    IF query_kind = "str" THEN SearchReturned(MockItems) ELSE SearchRaised

\* a scrape without the fallback: an empty list on failure or no results
_search_duckduckgo_no_fallback(query_kind, outcome) ==
    SearchResult([exc |-> FALSE, urls |-> outcome.urls], PageSnippet)

\* _search_duckduckgo: the scraped results, or the mock's when the call
\* raised or the page listed no result
_search_duckduckgo(query_kind, outcome) ==
    IF outcome.exc THEN _mock_search(query_kind)
    ELSE IF outcome.urls # <<>> THEN SearchResult(outcome, PageSnippet)
    ELSE _mock_search(query_kind)

\* _search_serpapi: the organic results, or [] when the call raised
_search_serpapi(query_kind, outcome) ==
    IF outcome.exc THEN SearchReturned(<<>>)
    ELSE SearchResult(outcome, PageSnippet)

\* _search_google: the items, or [] when the call raised
_search_google(query_kind, outcome) ==
    IF outcome.exc THEN SearchReturned(<<>>)
    ELSE SearchResult(outcome, PageSnippet)

\* the if/elif chain of _search
SelectedProvider(config) ==
    IF config.use_free_search THEN "duckduckgo"
    ELSE IF config.serpapi_key # "" THEN "serpapi"
    ELSE IF config.google_api_key # "" /\ config.google_cse_id # "" THEN "google"
    ELSE "duckduckgo"

InitSearch ==
    /\ state = initial_state("")
    /\ pc = "idle"
    /\ trace = <<>>
    /\ failure = "none"
    /\ response = <<>>
    /\ fetch = Idle
    /\ rank = Idle
    /\ called = Idle
    /\ \E config \in SearchConfigs, kind \in SearchQueryKinds :
          search = [phase |-> "called",
                    config |-> config,
                    query_kind |-> kind,
                    provider |-> "none",
                    outcome |-> [exc |-> FALSE, urls |-> <<>>],
                    result |-> SearchReturned(<<>>)]

\* _search picks the provider coroutine to await
SearchSelect ==
    /\ search.phase = "called"
    /\ search' = [search EXCEPT !.phase = "selected",
                                !.provider = SelectedProvider(search.config)]
    /\ UNCHANGED <<state, pc, trace, failure, response, fetch, rank, called>>

\* the provider's request raises or lists results; _search returns or raises
SearchProvider(provider, result, outcome) ==
    /\ search.phase = "selected"
    /\ search.provider = provider
    /\ search' = [search EXCEPT !.phase = IF result.exc THEN "raised" ELSE "returned",
                                !.outcome = outcome,
                                !.result = result]
    /\ UNCHANGED <<state, pc, trace, failure, response, fetch, rank, called>>

SearchDuckDuckGo ==
    \E outcome \in SearchOutcomes(PipelineUrls, MaxResults) :
        SearchProvider("duckduckgo", _search_duckduckgo(search.query_kind, outcome), outcome)

SearchSerpapi ==
    \E outcome \in SearchOutcomes(PipelineUrls, MaxResults) :
        SearchProvider("serpapi", _search_serpapi(search.query_kind, outcome), outcome)

SearchGoogle ==
    \E outcome \in SearchOutcomes(PipelineUrls, MaxResults) :
        SearchProvider("google", _search_google(search.query_kind, outcome), outcome)

NextSearch ==
    \/ SearchSelect
    \/ SearchDuckDuckGo
    \/ SearchSerpapi
    \/ SearchGoogle

SpecSearch == InitSearch /\ [][NextSearch]_vars

\* the provider's call failed or returned no results, and _search is through
ProviderGaveNothing ==
    /\ search.phase \in {"returned", "raised"}
    /\ search.outcome.exc \/ search.outcome.urls = <<>>

RankClaims ==
    {[i \in 1..n |-> [id |-> i,
                      text |-> CompletionClaim(i).text,
                      time_sensitivity |-> CompletionClaim(i).time_sensitivity,
                      is_verifiable |-> TRUE]] : n \in 0..2}

\* the evidence lists of one claim: fetch_evidence lets no URL come twice
RankLists ==
    LET pages == <<"https://example.com/c", "https://medium.com/b",
                   "https://en.wikipedia.org/a">>
    IN {[i \in 1..Len(idx) |-> pages[idx[i]]] :
           idx \in {s \in SeqsUpTo(1..Len(pages), Len(pages)) :
                       \A i, j \in 1..Len(s) : i < j => s[i] < s[j]}}

RankEvidence ==
    UNION {[S -> {[i \in 1..Len(list) |-> ProviderItem(list[i], PageSnippet, NoDate)] :
                     list \in RankLists}] : S \in SUBSET {1, 2}}

\* relevance completions; with the reputations 0.9 and 0.7 the scores 0.5
\* and 0.62 give two items the same combined_score
RankCompletions == {RelevanceError, RelevanceNumber(620), RelevanceNumber(900)}

InitRank ==
    /\ state = initial_state("")
    /\ pc = "idle"
    /\ trace = <<>>
    /\ failure = "none"
    /\ response = <<>>
    /\ fetch = Idle
    /\ search = Idle
    /\ called = Idle
    /\ \E claims \in RankClaims, evidence \in RankEvidence, k \in 1..MaxRankK :
          rank = [phase |-> "called",
                  claims |-> claims,
                  evidence |-> evidence,
                  max_evidence_per_claim |-> k,
                  keys |-> KeysInOrder(DOMAIN evidence),
                  scored |-> 0,
                  ranked |-> EmptyDict]

\* if not claims or not evidence: return {}
RankEnter ==
    /\ rank.phase = "called"
    /\ rank' = [rank EXCEPT !.phase = IF rank.claims = <<>> \/ DOMAIN rank.evidence = {}
                                      THEN "returned" ELSE "loop"]
    /\ UNCHANGED <<state, pc, trace, failure, response, fetch, search, called>>

\* if claim_id not in claims_by_id: continue
RankSkipClaim ==
    /\ rank.phase = "loop"
    /\ rank.keys # <<>>
    /\ Head(rank.keys) \notin ClaimIdsOf(rank.claims)
    /\ rank' = [rank EXCEPT !.keys = Tail(@)]
    /\ UNCHANGED <<state, pc, trace, failure, response, fetch, search, called>>

\* one turn of "for item in evidence_items": the item dict is scored in place
RankScoreItem ==
    /\ rank.phase = "loop"
    /\ rank.keys # <<>>
    /\ Head(rank.keys) \in ClaimIdsOf(rank.claims)
    /\ rank.scored < Len(rank.evidence[Head(rank.keys)])
    /\ \E completion \in RankCompletions :
          LET cid == Head(rank.keys)
              i == rank.scored + 1
          IN rank' = [rank EXCEPT
                         !.evidence[cid][i] =
                             ScoredItem(ClaimById(rank.claims, cid), @, completion),
                         !.scored = i]
    /\ UNCHANGED <<state, pc, trace, failure, response, fetch, search, called>>

\* the sort and the slice of one claim's scored_items
RankSortClaim ==
    /\ rank.phase = "loop"
    /\ rank.keys # <<>>
    /\ Head(rank.keys) \in ClaimIdsOf(rank.claims)
    /\ rank.scored = Len(rank.evidence[Head(rank.keys)])
    /\ rank' = [rank EXCEPT
                   !.ranked = DictSet(@, Head(rank.keys),
                                      TopK(rank.evidence[Head(rank.keys)],
                                           rank.max_evidence_per_claim)),
                   !.keys = Tail(@),
                   !.scored = 0]
    /\ UNCHANGED <<state, pc, trace, failure, response, fetch, search, called>>

RankReturn ==
    /\ rank.phase = "loop"
    /\ rank.keys = <<>>
    /\ rank' = [rank EXCEPT !.phase = "returned"]
    /\ UNCHANGED <<state, pc, trace, failure, response, fetch, search, called>>

NextRank ==
    \/ RankEnter
    \/ RankSkipClaim
    \/ RankScoreItem
    \/ RankSortClaim
    \/ RankReturn

SpecRank == InitRank /\ [][NextRank]_vars

\* C10: each list rank_evidence returns is in non-increasing combined_score
\* and holds the K highest-scored items of the claim's evidence (all of them
\* when there are fewer than K): no item left out scores strictly higher
\* than an item kept.
C10_SortedTopK ==
    rank.phase = "returned" =>
        \A cid \in DOMAIN rank.ranked :
            LET list == rank.ranked[cid]
                all == rank.evidence[cid]
            IN /\ Len(list) = Min(rank.max_evidence_per_claim, Len(all))
               /\ Range(list) \subseteq Range(all)
               /\ Cardinality(Range(list)) = Len(list)
               /\ \A i, j \in 1..Len(list) :
                     i < j => list[i].combined_score >= list[j].combined_score
               /\ \A d \in Range(all) \ Range(list) : \A k \in Range(list) :
                     d.combined_score <= k.combined_score

\* C10 witness: rank_evidence returned two of three items whose scores rose
\* along the evidence list: the highest-scored first, the lowest left out.
C10_Witness ==
    /\ rank.phase = "returned"
    /\ rank.max_evidence_per_claim = 2
    /\ \E cid \in DOMAIN rank.ranked :
          /\ Len(rank.evidence[cid]) = 3
          /\ Len(rank.ranked[cid]) = 2
          /\ rank.evidence[cid][1].combined_score < rank.evidence[cid][2].combined_score
          /\ rank.evidence[cid][2].combined_score < rank.evidence[cid][3].combined_score
          /\ rank.ranked[cid] = <<rank.evidence[cid][3], rank.evidence[cid][2]>>

(***************************************************************************)
(* Further properties of a pipeline run (Spec).                            *)
(***************************************************************************)
\* C11: in every pipeline state every claim id of ranked_evidence is a claim
\* id of raw_evidence, and every item of a ranked list is an item of the raw
\* list of the same claim.
C11_RankedFromRaw ==
    \A cid \in DOMAIN state.ranked_evidence :
        /\ cid \in DOMAIN state.raw_evidence
        /\ Range(state.ranked_evidence[cid]) \subseteq Range(state.raw_evidence[cid])

\* C11 witness: the ranker returned, having scored two items of a claim and
\* kept one of them.
C11_Witness ==
    /\ pc = "verification"
    /\ failure = "none"
    /\ \E cid \in DOMAIN state.ranked_evidence :
          /\ Len(state.raw_evidence[cid]) = 2
          /\ Len(state.ranked_evidence[cid]) = 1
          /\ "combined_score" \in DOMAIN state.ranked_evidence[cid][1]

\* exactly one verdict per claim of the list, in the order of the list
OneVerdictPerClaim(claims, verdicts) ==
    /\ Len(verdicts) = Len(claims)
    /\ \A i \in 1..Len(claims) : verdicts[i].claim_id = claims[i].id
    /\ \A cid \in ClaimIdsOf(claims) :
          Cardinality({i \in 1..Len(verdicts) : verdicts[i].claim_id = cid}) = 1

VerifyClaims ==
    {[i \in 1..n |-> [id |-> i,
                      text |-> CompletionClaim(i).text,
                      time_sensitivity |-> CompletionClaim(i).time_sensitivity,
                      is_verifiable |-> TRUE]] : n \in 0..(MaxClaims + 1)}

\* what the verdict completion of one claim may be
VerifyCompletions ==
    {VerdictError, VerdictText, VerdictBadField,
     VerdictJson("supported", 800, <<"https://en.wikipedia.org/a">>, <<>>),
     VerdictJson("contradicted", 1200, <<>>, <<"https://medium.com/b">>)}

InitVerify ==
    /\ state = initial_state("")
    /\ pc = "idle"
    /\ trace = <<>>
    /\ failure = "none"
    /\ response = <<>>
    /\ fetch = Idle
    /\ search = Idle
    /\ rank = Idle
    /\ \E claims \in VerifyClaims :
          called = [phase |-> "called",
                    claims |-> claims,
                    completions |-> <<>>,
                    verdicts |-> <<>>]

\* if not claims: return []
VerifyEnter ==
    /\ called.phase = "called"
    /\ called' = [called EXCEPT !.phase = IF called.claims = <<>> THEN "returned"
                                          ELSE "loop"]
    /\ UNCHANGED <<state, pc, trace, failure, response, fetch, search, rank>>

\* one turn of "for claim in claims", with the completion it got
VerifyClaim ==
    /\ called.phase = "loop"
    /\ Len(called.verdicts) < Len(called.claims)
    /\ \E completion \in VerifyCompletions :
          LET claim == called.claims[Len(called.verdicts) + 1]
              turn == VerifyTurn(claim, _verify_single_claim(claim, completion))
          IN called' = IF turn.raised THEN [called EXCEPT !.phase = "raised"]
                       ELSE [called EXCEPT
                                !.completions = Append(@, completion),
                                !.verdicts = @ \o turn.verdicts]
    /\ UNCHANGED <<state, pc, trace, failure, response, fetch, search, rank>>

VerifyReturn ==
    /\ called.phase = "loop"
    /\ Len(called.verdicts) = Len(called.claims)
    /\ called' = [called EXCEPT !.phase = "returned"]
    /\ UNCHANGED <<state, pc, trace, failure, response, fetch, search, rank>>

NextVerify ==
    \/ VerifyEnter
    \/ VerifyClaim
    \/ VerifyReturn

SpecVerify == InitVerify /\ [][NextVerify]_vars

\* C13: verify_claims never raises; a claim whose provider call failed or
\* whose completion did not parse to a verdict gets the fallback verdict
\* (not_verifiable, confidence 0, no supporting and no contradicting
\* sources), and every other claim gets the verdict of its own completion.
C13_FallbackVerdict ==
    /\ called.phase # "raised"
    /\ Len(called.verdicts) = Len(called.completions)
    /\ \A i \in 1..Len(called.verdicts) :
          LET v == called.verdicts[i]
              c == called.completions[i]
          IN /\ v.claim_id = called.claims[i].id
             /\ c.kind # "json" =>
                   /\ v.verdict = "not_verifiable"
                   /\ v.confidence = 0
                   /\ v.supporting_sources = <<>>
                   /\ v.contradicting_sources = <<>>
             /\ c.kind = "json" =>
                   /\ v.verdict = c.verdict
                   /\ v.confidence = IF c.confidence > ONE THEN ONE ELSE c.confidence
                   /\ v.supporting_sources = c.supporting_sources
                   /\ v.contradicting_sources = c.contradicting_sources

\* C13 witness: verify_claims returned three verdicts; the provider call of
\* the second claim had failed, the first and third completions were verdicts.
C13_Witness ==
    /\ called.phase = "returned"
    /\ Len(called.verdicts) = 3
    /\ called.completions[1].kind = "json"
    /\ called.completions[2].kind = "error"
    /\ called.completions[3].kind = "json"
    /\ called.verdicts[2] = FallbackVerdict(2)
    /\ called.verdicts[3].verdict = "contradicted"


(***************************************************************************)
(* QueryPlannerAgent.plan_queries on its own: one claim list, every        *)
(* completion the provider may give for each claim.                        *)
(***************************************************************************)
\* what the planning completion of one claim may be: provider failure, text
\* without an array, arrays of 0 up to MAX_QUERIES + 1 queries
PlanCompletions ==
    {PlanningError, PlanningText} \cup {PlanningJson(n) : n \in 0..(MaxPlanned + 2)}

InitPlan ==
    /\ state = initial_state("")
    /\ pc = "idle"
    /\ trace = <<>>
    /\ failure = "none"
    /\ response = <<>>
    /\ fetch = Idle
    /\ search = Idle
    /\ rank = Idle
    /\ \E claims \in VerifyClaims :
          called = [phase |-> "called",
                    claims |-> claims,
                    completions |-> <<>>,
                    queries |-> EmptyDict]

\* if not claims: return {}
PlanEnter ==
    /\ called.phase = "called"
    /\ called' = [called EXCEPT !.phase = IF called.claims = <<>> THEN "returned"
                                          ELSE "loop"]
    /\ UNCHANGED <<state, pc, trace, failure, response, fetch, search, rank>>

\* one turn of "for claim in claims": queries[claim["id"]] is assigned in the
\* try block or in its except branch
PlanClaim ==
    /\ called.phase = "loop"
    /\ Len(called.completions) < Len(called.claims)
    /\ \E completion \in PlanCompletions :
          LET claim == called.claims[Len(called.completions) + 1]
          IN called' = [called EXCEPT
                           !.completions = Append(@, completion),
                           !.queries = DictSet(@, claim.id,
                                               ClaimQueries(claim, completion))]
    /\ UNCHANGED <<state, pc, trace, failure, response, fetch, search, rank>>

PlanReturn ==
    /\ called.phase = "loop"
    /\ Len(called.completions) = Len(called.claims)
    /\ called' = [called EXCEPT !.phase = "returned"]
    /\ UNCHANGED <<state, pc, trace, failure, response, fetch, search, rank>>

NextPlan ==
    \/ PlanEnter
    \/ PlanClaim
    \/ PlanReturn

SpecPlan == InitPlan /\ [][NextPlan]_vars

\* C14: when plan_queries has returned, every input claim has an entry in the
\* query map and the entry holds between 1 and 3 queries, whatever the
\* completions were; after a provider failure or a completion without an
\* array the entry is the single fallback query.
C14_OneToThreeQueries ==
    called.phase = "returned" =>
        \A i \in 1..Len(called.claims) :
            LET cid == called.claims[i].id
            IN /\ cid \in DOMAIN called.queries
               /\ Len(called.queries[cid]) \in 1..MAX_QUERIES
               /\ called.completions[i].kind \in {"error", "text"} =>
                     called.queries[cid] = <<FallbackQuery(called.claims[i])>>


(***************************************************************************)
(* VerificationService._calculate_page_score on its own: every list of up  *)
(* to MaxClaims claim results over the verdicts, three confidences and the *)
(* numbers of sources that _build_sources can attribute.                   *)
(***************************************************************************)
\* confidences in thousandths: 0.0, 0.6, 1.0
Confidences == {0, 600, ONE}

\* a ClaimResult as the score reads it: verdict, confidence and the two
\* source lists, of which only the lengths matter
ScoredClaim(verdict, confidence, s, c) ==
    [verdict |-> verdict,
     confidence |-> confidence,
     sources |-> [supporting |-> [k \in 1..s |-> [role |-> "supporting", rank |-> k]],
                  contradicting |-> [k \in 1..c |-> [role |-> "contradicting", rank |-> k]]]]

ScoredClaims ==
    {ScoredClaim(verdict, confidence, s, c) :
        verdict \in Range(VerdictEnum), confidence \in Confidences,
        s \in 0..MAX_SUPPORTING, c \in 0..MAX_CONTRADICTING}

InitScore ==
    /\ state = initial_state("")
    /\ pc = "idle"
    /\ trace = <<>>
    /\ failure = "none"
    /\ response = <<>>
    /\ fetch = Idle
    /\ search = Idle
    /\ rank = Idle
    /\ \E claims \in SeqsUpTo(ScoredClaims, MaxClaims) :
          called = [phase |-> "called",
                    claims |-> claims,
                    base_page_score |-> 0,
                    global_bonus |-> 0,
                    score |-> 0]

\* if not claims: return 50
ScoreEmpty ==
    /\ called.phase = "called"
    /\ called.claims = <<>>
    /\ called' = [called EXCEPT !.phase = "returned",
                                !.score = _calculate_page_score(called.claims)]
    /\ UNCHANGED <<state, pc, trace, failure, response, fetch, search, rank>>

\* the loop over the claims, the global bonus and the final cap
ScoreClaims ==
    /\ called.phase = "called"
    /\ called.claims # <<>>
    /\ called' = [called EXCEPT
                     !.phase = "returned",
                     !.base_page_score = BasePageScore(called.claims),
                     !.global_bonus = GlobalBonus(TotalSupporting(called.claims),
                                                  TotalContradicting(called.claims)),
                     !.score = _calculate_page_score(called.claims)]
    /\ UNCHANGED <<state, pc, trace, failure, response, fetch, search, rank>>

NextScore ==
    \/ ScoreEmpty
    \/ ScoreClaims

SpecScore == InitScore /\ [][NextScore]_vars

\* C15: the page score of every list of claim results is an integer between
\* 0 and 100, and the score of the empty list is 50.
C15_ScoreInRange ==
    called.phase = "returned" =>
        /\ called.score \in 0..100
        /\ called.claims = <<>> => called.score = 50

\* C15 witness: two strongly supported claims with five supporting sources
\* each: the base score is 100, the global bonus is added and the score
\* returned is 100.
C15_Witness ==
    /\ called.phase = "returned"
    /\ Len(called.claims) = 2
    /\ called.base_page_score = 100
    /\ called.global_bonus > 0
    /\ called.score = 100

\* C16: with the rest of the list fixed, giving one claim a confidence at
\* least as high, or a verdict of at least the same weight, gives a page score
\* at least as high.
C16_Monotone ==
    called.phase = "returned" =>
        \A i \in 1..Len(called.claims) :
            /\ \A confidence \in Confidences :
                  confidence >= called.claims[i].confidence =>
                      _calculate_page_score(
                          [called.claims EXCEPT ![i].confidence = confidence])
                          >= called.score
            /\ \A verdict \in Range(VerdictEnum) :
                  VerdictWeight(verdict) >= VerdictWeight(called.claims[i].verdict) =>
                      _calculate_page_score(
                          [called.claims EXCEPT ![i].verdict = verdict])
                          >= called.score

\* C16 witness: a contradicted second claim at confidence 0.6 without sources;
\* with strongly_supported in its place the score is strictly higher.
C16_Witness ==
    /\ called.phase = "returned"
    /\ Len(called.claims) = 2
    /\ called.claims[2] = ScoredClaim("contradicted", 600, 0, 0)
    /\ _calculate_page_score(
           [called.claims EXCEPT ![2].verdict = "strongly_supported"]) > called.score
    /\ _calculate_page_score(
           [called.claims EXCEPT ![2].confidence = ONE]) > called.score

\* C17: the global bonus is added exactly when the supporting sources S and
\* contradicting sources C of all claims have S/(S+C) >= 0.7 with S >= 5, or
\* S/(S+C) >= 0.8 with S >= 3; the bonus is a whole number from 0 to 10, and
\* the score is the base score plus the bonus, capped to 0..100.
C17_GlobalBonus ==
    (called.phase = "returned" /\ called.claims # <<>>) =>
        LET S == SumOver([i \in 1..Len(called.claims) |->
                             Len(called.claims[i].sources.supporting)],
                         1, Len(called.claims))
            T == S + SumOver([i \in 1..Len(called.claims) |->
                                 Len(called.claims[i].sources.contradicting)],
                             1, Len(called.claims))
            awarded == \/ (10 * S >= 7 * T /\ S >= 5)
                       \/ (10 * S >= 8 * T /\ S >= 3)
        IN /\ called.global_bonus \in 0..10
           /\ awarded <=> called.global_bonus > 0
           /\ called.score = Min(100, Max(0, called.base_page_score + called.global_bonus))

\* C17 witness: 7 supporting and 3 contradicting sources over two claims, a
\* ratio of exactly 0.7: the bonus is added to a base score below the cap.
C17_Witness ==
    /\ called.phase = "returned"
    /\ Len(called.claims) = 2
    /\ Len(called.claims[1].sources.supporting) + Len(called.claims[2].sources.supporting) = 7
    /\ Len(called.claims[1].sources.contradicting)
         + Len(called.claims[2].sources.contradicting) = 3
    /\ called.global_bonus = 3
    /\ called.score = called.base_page_score + 3
    /\ called.score < 100


(***************************************************************************)
(* ExplanationAgent._build_sources on its own: the ranked evidence of one  *)
(* claim and the two URL lists of its verdict.                             *)
(***************************************************************************)
\* the ranked evidence of a claim is a prefix of these pages, in rank order
RankedPages == <<"https://example.com/c", "https://en.wikipedia.org/a",
                 "https://medium.com/b", "https://example.com/d">>

RankedLists ==
    {[i \in 1..n |-> ProviderItem(RankedPages[i], PageSnippet, NoDate)] :
        n \in 0..Len(RankedPages)}

\* the URLs a verdict names: two pages of the evidence and one page that is
\* not among the evidence
DeclaredUrls == {RankedPages[1], RankedPages[2], "https://other.org/x"}

\* supporting_sources of a verdict: short lists, and lists longer than the
\* cap of 5
SupportingLists ==
    SeqsUpTo(DeclaredUrls, MaxResults) \cup
    {[i \in 1..(MAX_SUPPORTING + 1) |-> RankedPages[1]],
     [i \in 1..(MAX_SUPPORTING + 1) |-> RankedPages[((i - 1) % Len(RankedPages)) + 1]]}

\* contradicting_sources of a verdict: short lists, and a list longer than
\* the cap of 3
ContradictingLists ==
    SeqsUpTo(DeclaredUrls, MaxResults) \cup
    {[i \in 1..(MAX_CONTRADICTING + 1) |-> RankedPages[((i - 1) % Len(RankedPages)) + 1]]}

InitSources ==
    /\ state = initial_state("")
    /\ pc = "idle"
    /\ trace = <<>>
    /\ failure = "none"
    /\ response = <<>>
    /\ fetch = Idle
    /\ search = Idle
    /\ rank = Idle
    /\ \E evidence \in RankedLists, supporting_urls \in SupportingLists,
          contradicting_urls \in ContradictingLists :
          called = [phase |-> "called",
                    evidence |-> evidence,
                    supporting_urls |-> supporting_urls,
                    contradicting_urls |-> contradicting_urls,
                    sources |-> [supporting |-> <<>>, contradicting |-> <<>>]]

\* some declared URL is among the evidence
SomeDeclared ==
    (Range(Take(called.supporting_urls, MAX_SUPPORTING))
        \cup Range(Take(called.contradicting_urls, MAX_CONTRADICTING)))
    \cap UrlsOf(called.evidence) # {}

\* the call in which a declared source was found: the sources are those
BuildDeclared ==
    /\ called.phase = "called"
    /\ SomeDeclared
    /\ called' = [called EXCEPT
                     !.phase = "returned",
                     !.sources = _build_sources(called.evidence, called.supporting_urls,
                                                called.contradicting_urls)]
    /\ UNCHANGED <<state, pc, trace, failure, response, fetch, search, rank>>

\* the call in which no declared source was found: "use top evidence"
BuildTop ==
    /\ called.phase = "called"
    /\ ~SomeDeclared
    /\ called' = [called EXCEPT
                     !.phase = "returned",
                     !.sources = _build_sources(called.evidence, called.supporting_urls,
                                                called.contradicting_urls)]
    /\ UNCHANGED <<state, pc, trace, failure, response, fetch, search, rank>>

NextSources ==
    \/ BuildDeclared
    \/ BuildTop

SpecSources == InitSources /\ [][NextSources]_vars

\* C18: in the sources built for a claim no URL is in both the supporting
\* and the contradicting list, no URL is twice in one list, the supporting
\* list has at most 5 items and the contradicting list at most 3.
C18_Partitioned ==
    called.phase = "returned" =>
        LET supporting == called.sources.supporting
            contradicting == called.sources.contradicting
        IN /\ UrlsOf(supporting) \cap UrlsOf(contradicting) = {}
           /\ \A i, j \in 1..Len(supporting) :
                 supporting[i].url = supporting[j].url => i = j
           /\ \A i, j \in 1..Len(contradicting) :
                 contradicting[i].url = contradicting[j].url => i = j
           /\ Len(supporting) <= MAX_SUPPORTING
           /\ Len(contradicting) <= MAX_CONTRADICTING

\* C19: when both URL lists of the verdict are empty and the ranked evidence
\* is not, the sources are the first three ranked items (all of them when
\* there are fewer), in rank order, each with role neutral, and no source has
\* role supporting or contradicting.
C19_NeutralTopThree ==
    (/\ called.phase = "returned"
     /\ called.supporting_urls = <<>>
     /\ called.contradicting_urls = <<>>
     /\ called.evidence # <<>>) =>
        LET presented == called.sources.supporting \o called.sources.contradicting
        IN /\ Len(presented) = Min(3, Len(called.evidence))
           /\ \A i \in 1..Len(presented) :
                 /\ presented[i].url = called.evidence[i].url
                 /\ presented[i].domain_score = called.evidence[i].domain_reputation
                 /\ presented[i].role = "neutral"

\* C19 witness: four ranked items and a verdict naming no source; the first
\* three are presented as neutral.
C19_Witness ==
    /\ called.phase = "returned"
    /\ called.supporting_urls = <<>>
    /\ called.contradicting_urls = <<>>
    /\ Len(called.evidence) = 4
    /\ Len(called.sources.supporting) = 3
    /\ called.sources.supporting[3].url = RankedPages[3]
    /\ called.sources.supporting[3].role = "neutral"
    /\ called.sources.contradicting = <<>>


(***************************************************************************)
(* The enum fields of format_results on their own: one claim dict and one  *)
(* verdict dict whose fields hold any JSON value, or are missing.          *)
(***************************************************************************)
\* what a field may hold: the first member, another member, a member in
\* other letter case, a string that is no member, null, a number, nothing
RawValues(enum_class, cased) ==
    {JsonStr(enum_class[1]), JsonStr(enum_class[2]), JsonStr(cased),
     JsonStr("unknown"), JsonNull, JsonNumber, Absent}

InitEnum ==
    /\ state = initial_state("")
    /\ pc = "idle"
    /\ trace = <<>>
    /\ failure = "none"
    /\ response = <<>>
    /\ fetch = Idle
    /\ search = Idle
    /\ rank = Idle
    /\ \E claim_type \in RawValues(ClaimTypeEnum, "ENTITY"),
          topic \in RawValues(VerticalEnum, "SaaS"),
          time_sensitivity \in RawValues(TimeSensitivityEnum, "Medium"),
          verdict \in RawValues(VerdictEnum, "SUPPORTED") :
          called = [phase |-> "called",
                    claim |-> [id |-> 1,
                               claim_type |-> claim_type,
                               topic |-> topic,
                               time_sensitivity |-> time_sensitivity],
                    verdict_data |-> [claim_id |-> 1, verdict |-> verdict],
                    result |-> Absent]

\* the enum arguments of ClaimResult(...) in format_results
FormatEnums ==
    /\ called.phase = "called"
    /\ called' = [called EXCEPT
                     !.phase = "returned",
                     !.result = EnumFields(called.claim, called.verdict_data)]
    /\ UNCHANGED <<state, pc, trace, failure, response, fetch, search, rank>>

NextEnum == FormatEnums

SpecEnum == InitEnum /\ [][NextEnum]_vars

\* the member a raw value is parsed to when a value that is a member's value
\* is kept and every other value gives the first member
KeptOrFirst(enum_class, first, raw) ==
    IF raw.type = "str" /\ raw.str \in Range(enum_class) THEN raw.str ELSE first

\* the member a raw value is parsed to when a string that is a member's value
\* in any letter case gives that member and every other value the first member
LoweredOrFirst(enum_class, first, raw) ==
    IF raw.type = "str" /\ Lower(raw.str) \in Range(enum_class) THEN Lower(raw.str)
    ELSE first

\* C20 as stated: each enum field of the result is the field's value when
\* that is a member's value, and the first member (numeric, ecommerce, high,
\* strongly_supported) for every other string and every non-string.
C20_KeptOrFirstMember ==
    called.phase = "returned" =>
        /\ called.claim.claim_type # Absent =>
              called.result.claim_type =
                  KeptOrFirst(ClaimTypeEnum, "numeric", called.claim.claim_type)
        /\ called.claim.topic # Absent =>
              called.result.topic = KeptOrFirst(VerticalEnum, "ecommerce", called.claim.topic)
        /\ called.claim.time_sensitivity # Absent =>
              called.result.time_sensitivity =
                  KeptOrFirst(TimeSensitivityEnum, "high", called.claim.time_sensitivity)
        /\ called.verdict_data.verdict # Absent =>
              called.result.verdict =
                  KeptOrFirst(VerdictEnum, "strongly_supported", called.verdict_data.verdict)

\* C20, amended: each enum field of the result is the member whose value is
\* the field's string in lower case, and the first member (numeric,
\* ecommerce, high, strongly_supported) when there is no such member or the
\* value is not a string; a member's value is kept.
C20_LoweredOrFirstMember ==
    called.phase = "returned" =>
        /\ called.claim.claim_type # Absent =>
              called.result.claim_type =
                  LoweredOrFirst(ClaimTypeEnum, "numeric", called.claim.claim_type)
        /\ called.claim.topic # Absent =>
              called.result.topic =
                  LoweredOrFirst(VerticalEnum, "ecommerce", called.claim.topic)
        /\ called.claim.time_sensitivity # Absent =>
              called.result.time_sensitivity =
                  LoweredOrFirst(TimeSensitivityEnum, "high", called.claim.time_sensitivity)
        /\ called.verdict_data.verdict # Absent =>
              called.result.verdict =
                  LoweredOrFirst(VerdictEnum, "strongly_supported",
                                 called.verdict_data.verdict)
        /\ \A field \in {"claim_type", "topic", "time_sensitivity"} :
              called.claim[field] \in {JsonStr("entity"), JsonStr("saas"), JsonStr("medium")}
                  => called.result[field] = called.claim[field].str

\* C20 witness: a null claim type, a topic that is no member, a time
\* sensitivity in other letter case and a number as verdict.
C20_Witness ==
    /\ called.phase = "returned"
    /\ called.claim.claim_type = JsonNull
    /\ called.claim.topic = JsonStr("unknown")
    /\ called.claim.time_sensitivity = JsonStr("Medium")
    /\ called.verdict_data.verdict = JsonNumber
    /\ called.result = [claim_type |-> "numeric", topic |-> "ecommerce",
                        time_sensitivity |-> "medium", verdict |-> "strongly_supported"]


(***************************************************************************)
(* The endpoints verify_content and verify_url (endpoints/verification.py):*)
(* one request from its arrival to its HTTP status.  events lists, in      *)
(* order, what the request has done.                                       *)
(***************************************************************************)
\* settings.GROQ_API_KEY: None, the empty string, or a key
KeyValues == {"none", "empty", "set"}

\* a check that lets every request through
KeyMissingIgnored(key) == FALSE

\* not settings.GROQ_API_KEY
KeyMissing(key) == key \in {"none", "empty"}

InitRequest ==
    /\ state = initial_state("")
    /\ pc = "idle"
    /\ trace = <<>>
    /\ failure = "none"
    /\ response = <<>>
    /\ fetch = Idle
    /\ search = Idle
    /\ rank = Idle
    /\ \E endpoint \in {"verify_content", "verify_url"}, key \in KeyValues,
          text \in RawTexts \cup {"Tea is hot"},
          vertical \in {VerticalEnum[3], VerticalEnum[8]} :
          called = [phase |-> IF endpoint = "verify_url" THEN "fetch" ELSE "check",
                    endpoint |-> endpoint,
                    key |-> key,
                    text |-> text,
                    vertical |-> vertical,
                    events |-> <<>>,
                    status |-> 0]

\* the request ends with an HTTPException of this status
Rejected(status, event) ==
    called' = [called EXCEPT !.phase = "done",
                             !.status = status,
                             !.events = Append(@, event)]

\* the request goes on to the next step
Proceeds(phase, event) ==
    called' = [called EXCEPT !.phase = phase, !.events = Append(@, event)]

\* verify_url: ContentFetcher().fetch gives text, gives nothing, or raises
FetchContent ==
    /\ called.phase = "fetch"
    /\ \/ Proceeds("check", "fetch")
       \/ Rejected(422, "fetch")
       \/ Rejected(500, "fetch")
    /\ UNCHANGED <<state, pc, trace, failure, response, fetch, search, rank>>

\* if not settings.GROQ_API_KEY: raise HTTPException(503)
CheckKey ==
    /\ called.phase = "check"
    /\ IF KeyMissing(called.key) THEN Rejected(503, "key_check")
       ELSE Proceeds("cache", "key_check")
    /\ UNCHANGED <<state, pc, trace, failure, response, fetch, search, rank>>

\* the cache lookup: a hit is returned, a miss goes on, a cached dict that
\* does not build a VerificationResponse raises
CacheLookup ==
    /\ called.phase = "cache"
    /\ \/ called' = [called EXCEPT !.phase = "done", !.status = 200,
                                   !.events = Append(@, "cache_get")]
       \/ Proceeds("construct", "cache_get")
       \/ Rejected(500, "cache_get")
    /\ UNCHANGED <<state, pc, trace, failure, response, fetch, search, rank>>

\* service = VerificationService(db), which builds VerificationPipeline()
ConstructService ==
    /\ called.phase = "construct"
    /\ \/ Proceeds("verify", "pipeline_constructed")
       \/ Rejected(500, "pipeline_constructed")
    /\ UNCHANGED <<state, pc, trace, failure, response, fetch, search, rank>>

\* result = await service.verify(...): the stages run
RunVerify ==
    /\ called.phase = "verify"
    /\ \/ Proceeds("store", "stages_run")
       \/ Rejected(500, "stages_run")
    /\ UNCHANGED <<state, pc, trace, failure, response, fetch, search, rank>>

\* the response is built and cached, then returned
StoreResponse ==
    /\ called.phase = "store"
    /\ \/ called' = [called EXCEPT !.phase = "done", !.status = 200,
                                   !.events = Append(@, "cache_set")]
       \/ Rejected(500, "cache_set")
    /\ UNCHANGED <<state, pc, trace, failure, response, fetch, search, rank>>

NextRequest ==
    \/ FetchContent
    \/ CheckKey
    \/ CacheLookup
    \/ ConstructService
    \/ RunVerify
    \/ StoreResponse

SpecRequest == InitRequest /\ [][NextRequest]_vars

\* C21: a request made while GROQ_API_KEY is absent never consults the cache,
\* constructs a pipeline or runs a stage, and ends with the rejection of the
\* key check; a pipeline is constructed only after the key check.
C21_KeyCheckedFirst ==
    /\ KeyMissing(called.key) =>
          /\ Range(called.events) \cap
                 {"cache_get", "pipeline_constructed", "stages_run", "cache_set"} = {}
          /\ "key_check" \in Range(called.events) =>
                 (called.phase = "done" /\ called.status = 503)
    /\ \A i \in 1..Len(called.events) :
          called.events[i] \in {"cache_get", "pipeline_constructed", "stages_run"} =>
              /\ called.key = "set"
              /\ \E j \in 1..(i - 1) : called.events[j] = "key_check"

\* C21 witness: a verify_url request with an empty key was rejected with 503
\* after the fetch, and nothing else was done.
C21_Witness ==
    /\ called.phase = "done"
    /\ called.endpoint = "verify_url"
    /\ called.key = "empty"
    /\ called.status = 503
    /\ called.events = <<"fetch", "key_check">>


\* C22: in a run whose extraction completion was text that is not JSON,
\* extract_claims gave the empty list, no exception leaves a stage, every
\* later stage runs with zero claims, and the run returns an empty claims
\* list with page score 50.
C22_MalformedExtraction ==
    (called # Idle /\ called.extraction = "text") =>
        /\ state.extracted_claims = <<>>
        /\ state.verifiable_claims = <<>>
        /\ state.claims = <<>>
        /\ pc # "raised"
        /\ trace = SubSeq(StageOrder, 1, Len(trace))
        /\ pc = "done" =>
              /\ trace = StageOrder
              /\ response[1].claims = <<>>
              /\ response[1].page_score = 50

\* C22 witness: a run with such a completion has returned after all stages,
\* with nothing in state.errors.
C22_Witness ==
    /\ called = Extraction("text")
    /\ pc = "done"
    /\ trace = StageOrder
    /\ state.errors = <<>>
    /\ response[1].claims = <<>>
    /\ response[1].page_score = 50


(***************************************************************************)
(* Progress of one run: the control flow of VerificationPipeline.run with  *)
(* every await in it.  Each node awaits one call of its agent, which       *)
(* returns or fails; the retrieval node awaits the gather of its searches, *)
(* which pass the semaphore.  The event loop runs every coroutine that can *)
(* go on, and an external call that was made returns or fails: a step      *)
(* that stays possible is eventually taken.                                *)
(***************************************************************************)
\* leaving "async with semaphore", with the slot kept
release_leaking(permits) == permits

\* leaving "async with semaphore": the slot is free again
release(permits) == permits + 1

InitProgress ==
    /\ state = initial_state("")
    /\ pc = "idle"
    /\ trace = <<>>
    /\ failure = "none"
    /\ response = <<>>
    /\ fetch = Idle
    /\ search = Idle
    /\ rank = Idle
    /\ called = [pc |-> "ingestion",
                 awaiting |-> FALSE,
                 outcomes |-> <<>>,
                 status |-> <<>>,
                 permits |-> SEMAPHORE_SLOTS]

\* a node other than retrieval awaits its agent
StageCall ==
    /\ called.pc \in Nodes \ {"retrieval"}
    /\ ~called.awaiting
    /\ called' = [called EXCEPT !.awaiting = TRUE]
    /\ UNCHANGED <<state, pc, trace, failure, response, fetch, search, rank>>

\* the awaited agent returns, or fails and the wrapper catches; the query
\* planner leaves the queries that the retrieval node will search
StageAnswer ==
    /\ called.pc \in Nodes \ {"retrieval"}
    /\ called.awaiting
    /\ \E outcome \in {"returned", "failed"} :
       \E n \in 0..(MaxClaims * MaxPlanned) :
          /\ called.pc # "query_planning" => n = 0
          /\ called' = [called EXCEPT
                           !.pc = Edge(called.pc),
                           !.awaiting = FALSE,
                           !.outcomes = Append(@, outcome),
                           !.status = IF called.pc = "query_planning"
                                      THEN [t \in 1..n |-> "pending"]
                                      ELSE @]
    /\ UNCHANGED <<state, pc, trace, failure, response, fetch, search, rank>>

\* limited_search of task t enters "async with semaphore"
SearchAcquire(t) ==
    /\ called.pc = "retrieval"
    /\ called.status[t] = "pending"
    /\ \A u \in 1..(t - 1) : called.status[u] # "pending"
    /\ acquire(called.permits)
    /\ called' = [called EXCEPT !.status[t] = "running", !.permits = @ - 1]
    /\ UNCHANGED <<state, pc, trace, failure, response, fetch, search, rank>>

\* the search of task t returns or raises, and the block is left
SearchRelease(t) ==
    /\ called.pc = "retrieval"
    /\ called.status[t] = "running"
    /\ \E outcome \in {"returned", "failed"} :
          called' = [called EXCEPT !.status[t] = outcome,
                                   !.permits = release(@)]
    /\ UNCHANGED <<state, pc, trace, failure, response, fetch, search, rank>>

\* gather(..., return_exceptions=True) is through when every search is over
GatherDone ==
    /\ called.pc = "retrieval"
    /\ \A t \in 1..Len(called.status) : called.status[t] \in {"returned", "failed"}
    /\ called' = [called EXCEPT !.pc = Edge("retrieval"),
                                !.outcomes = Append(@, "returned")]
    /\ UNCHANGED <<state, pc, trace, failure, response, fetch, search, rank>>

\* ainvoke is through: run returns its dict
RunReturn ==
    /\ called.pc = "END"
    /\ called' = [called EXCEPT !.pc = "done"]
    /\ UNCHANGED <<state, pc, trace, failure, response, fetch, search, rank>>

NextProgress ==
    \/ StageCall
    \/ StageAnswer
    \/ \E t \in 1..Len(called.status) : SearchAcquire(t)
    \/ \E t \in 1..Len(called.status) : SearchRelease(t)
    \/ GatherDone
    \/ RunReturn

SpecProgress == InitProgress /\ [][NextProgress]_vars /\ WF_vars(NextProgress)

\* search task t of the run is in this status
TaskIs(t, status) == t <= Len(called.status) /\ called.status[t] = status

\* C23: every started run reaches the end and returns; no node waits for
\* ever; every search that waits for a slot of the semaphore gets one, and
\* every search that holds one gives it back, whether it returned or raised.
C23_Terminates ==
    /\ <>(called.pc = "done")
    /\ \A node \in Nodes : (called.pc = node) ~> (called.pc # node)
    /\ \A t \in 1..(MaxClaims * MaxPlanned) :
          /\ (called.pc = "retrieval" /\ TaskIs(t, "pending")) ~> TaskIs(t, "running")
          /\ TaskIs(t, "running")
                 ~> ((TaskIs(t, "returned") \/ TaskIs(t, "failed"))
                     /\ called.permits > 0)
    /\ [](called.pc = "done" => called.permits = SEMAPHORE_SLOTS)

\* C23 witness: a run has returned after four searches, more than there are
\* slots, of which the first and the last raised, and after the agents of
\* three stages failed.
C23_Witness ==
    /\ called.pc = "done"
    /\ Len(called.status) = SEMAPHORE_SLOTS + 1
    /\ called.status[1] = "failed"
    /\ called.status[2] = "returned"
    /\ called.status[4] = "failed"
    /\ called.permits = SEMAPHORE_SLOTS
    /\ Cardinality({i \in 1..Len(called.outcomes) : called.outcomes[i] = "failed"}) = 3


(***************************************************************************)
(* _calculate_recency_score taken on its own: one call with a publication  *)
(* date that is missing, unparseable, ten days in the future or up to      *)
(* 4000 days old, and a time sensitivity that is a member of the enum or   *)
(* any other string.                                                       *)
(***************************************************************************)
TimeSensitivities == Range(TimeSensitivityEnum) \cup {"unknown"}

PublishedAts == {NoDate, BadDate} \cup {DatedAt(age) : age \in AgeDays}

InitRecency ==
    /\ \E published_at \in PublishedAts, time_sensitivity \in TimeSensitivities :
          called = [phase |-> "called", published_at |-> published_at,
                    time_sensitivity |-> time_sensitivity, score |-> 0]
    /\ state = Idle /\ pc = "idle" /\ trace = <<>> /\ failure = "none"
    /\ response = Idle /\ fetch = Idle /\ search = Idle /\ rank = Idle

RecencyScore ==
    /\ called.phase = "called"
    /\ called' = [called EXCEPT
                    !.phase = "returned",
                    !.score = _calculate_recency_score(called.published_at,
                                                       called.time_sensitivity)]
    /\ UNCHANGED <<state, pc, trace, failure, response, fetch, search, rank>>

NextRecency == RecencyScore

SpecRecency == InitRecency /\ [][NextRecency]_vars

\* the score of the same call made with another age or another sensitivity
RecencyAt(age, time_sensitivity) ==
    _calculate_recency_score(DatedAt(age), time_sensitivity)

errors_reducer(held, returned) == held \o returned

\* the errors list a node returns, given the list it received
NodeErrors(node, received, caught) ==
    IF caught THEN Append(received, ErrorEntry(node)) ELSE received

InitErrors ==
    /\ \E shared \in BOOLEAN :
          called = [pc |-> "ingestion", errors |-> <<>>, before |-> <<>>,
                    ran |-> "none", caught |-> FALSE, shared |-> shared]
    /\ state = Idle /\ pc = "idle" /\ trace = <<>> /\ failure = "none"
    /\ response = Idle /\ fetch = Idle /\ search = Idle /\ rank = Idle

\* one node runs and the graph merges what it returned
NodeReturns ==
    /\ called.pc \in Nodes
    /\ \E caught \in BOOLEAN :
       LET returned == NodeErrors(called.pc, called.errors, caught)
           held == IF called.shared THEN returned ELSE called.errors
       IN called' = [called EXCEPT
                       !.pc = Edge(called.pc),
                       !.before = called.errors,
                       !.errors = errors_reducer(held, returned),
                       !.ran = called.pc,
                       !.caught = caught]
    /\ UNCHANGED <<state, pc, trace, failure, response, fetch, search, rank>>

\* ainvoke returns the final state
GraphEnds ==
    /\ called.pc = "END"
    /\ called' = [called EXCEPT !.pc = "done"]
    /\ UNCHANGED <<state, pc, trace, failure, response, fetch, search, rank>>

NextErrors == NodeReturns \/ GraphEnds

SpecErrors == InitErrors /\ [][NextErrors]_vars

FallbackField(node) ==
    CASE node = "ingestion" -> "clean_text"
      [] node = "claim_decomposition" -> "extracted_claims"
      [] node = "claim_classification" -> "verifiable_claims"
      [] node = "evidence_ranking" -> "ranked_evidence"
      [] node = "explanation" -> "claims"
      [] OTHER -> "errors"

\* C26: when a stage wrapper catches an exception the state takes that
\* stage's fallback (clean_text = raw_text; extracted_claims empty;
\* verifiable_claims = extracted_claims; search_queries, raw_evidence with
\* sources_checked, and verdicts as before; ranked_evidence = raw_evidence;
\* claims empty) and no field other than errors and the fallback's changes
C26_FallbackOnly ==
    [][failure' = "raised" =>
          /\ WrapperDefault(pc, state, state')
          /\ pc = "retrieval" => state'.sources_checked = state.sources_checked
          /\ \A field \in (DOMAIN state) \ {"errors", FallbackField(pc)} :
                state'[field] = state[field]]_vars

\* the ranking wrapper has just caught an exception with evidence at hand,
\* after the extraction stage had recorded its model
C26_Witness ==
    /\ pc = "verification"
    /\ failure = "raised"
    /\ state.models_used # <<>>
    /\ state.raw_evidence # EmptyDict
    /\ state.ranked_evidence = state.raw_evidence
    /\ state.errors = <<"Ranking error">>

\* the nodes up to the claim filter
ClaimWriters == {"ingestion", "claim_decomposition", "claim_classification"}

\* C27: once the claim filter stage has returned, no later stage (query
\* planning, retrieval, ranking, verification, formatting, score
\* aggregation) changes a field of a claim or adds, removes or reorders the
\* claims of verifiable_claims
C27_ClaimsFrozen ==
    [][pc \notin ClaimWriters =>
          /\ state'.verifiable_claims = state.verifiable_claims
          /\ state'.extracted_claims = state.extracted_claims]_vars

\* a run is over in which the filter kept one of two claims, marked the
\* other as not verifiable, and the kept claim went through every later
\* stage
C27_Witness ==
    /\ pc = "done"
    /\ Len(state.extracted_claims) = 2
    /\ Len(state.verifiable_claims) = 1
    /\ \E i \in 1..2 : ~state.extracted_claims[i].is_verifiable
    /\ state.verifiable_claims[1].id \in DOMAIN state.ranked_evidence
    /\ Len(state.verdicts) = 1
    /\ Len(state.claims) = 1

(***************************************************************************)
(* filter_claims taken on its own: up to MaxClaims claims, and a           *)
(* completion that fails, does not parse, or parses to entries whose       *)
(* claim_id is the id of a claim or of no claim and whose is_verifiable is *)
(* true, false, absent, null or a string.                                  *)
(***************************************************************************)
FlagValues == {"true", "false", "absent", "null", "string"}

\* an id that no claim of the input has
ForeignId == MaxClaims + 1

FilterCompletions(claims) ==
    {ClassificationError, ClassificationText} \cup
    {ClassificationJson(entries) :
        entries \in SUBSET [claim_id : ClaimIdsOf(claims) \cup {ForeignId},
                            is_verifiable : FlagValues]}

InitFilter ==
    /\ \E n \in 0..MaxClaims :
          LET claims == extract_claims("Tea is hot", ExtractionJson(n))
          IN \E completion \in FilterCompletions(claims) :
                called = [phase |-> "called", claims |-> claims,
                          completion |-> completion, result |-> <<>>]
    /\ state = Idle /\ pc = "idle" /\ trace = <<>> /\ failure = "none"
    /\ response = Idle /\ fetch = Idle /\ search = Idle /\ rank = Idle

FilterClaims ==
    /\ called.phase = "called"
    /\ called' = [called EXCEPT
                    !.phase = "returned",
                    !.result = filter_claims(called.claims, called.completion)]
    /\ UNCHANGED <<state, pc, trace, failure, response, fetch, search, rank>>

NextFilter == FilterClaims

SpecFilter == InitFilter /\ [][NextFilter]_vars

\* result holds some of the claims, each once, in their order in claims
IsSubList(result, claims) ==
    \E keep \in SUBSET (1..Len(claims)) :
        LET idx == KeysInOrder(keep)
        IN result = [k \in 1..Len(idx) |-> claims[idx[k]]]

\* C28: filter_claims returns an order-preserving sub-list of its input:
\* the whole input on provider failure or an unparseable completion, and
\* otherwise exactly the claims for whose id the classification result has
\* an entry whose is_verifiable is true or missing
C28_FilterSubList ==
    called.phase = "returned" =>
        /\ IsSubList(called.result, called.claims)
        /\ called.completion.kind # "json" => called.result = called.claims
        /\ called.completion.kind = "json" =>
              \A i \in 1..Len(called.claims) :
                  (\E k \in 1..Len(called.result) :
                        called.result[k] = called.claims[i])
                  <=> (\E e \in called.completion.entries :
                        /\ e.claim_id = called.claims[i].id
                        /\ e.is_verifiable \in {"true", "absent"})

\* the URLs presented for a claim, in either list of its sources
PresentedUrls(result) ==
    {result.sources.supporting[k].url : k \in 1..Len(result.sources.supporting)}
    \cup {result.sources.contradicting[k].url :
              k \in 1..Len(result.sources.contradicting)}

\* the URLs a verdict declares, in either list
DeclaredBy(verdict_data) ==
    Range(verdict_data.supporting_sources) \cup Range(verdict_data.contradicting_sources)

\* C29: every source URL presented in a ClaimResult is the URL of an item
\* of that claim's ranked evidence, so a URL the verdict declares that is
\* not in the claim's ranked evidence is not presented
C29_PresentedFromEvidence ==
    \A i \in 1..Len(state.claims) :
        PresentedUrls(state.claims[i])
            \subseteq UrlsOf(DictGet(state.ranked_evidence, state.claims[i].id))

\* a run is over in which a verdict declared a URL that is not in its
\* claim's ranked evidence, while the claim has evidence and a presented
\* source
C29_Witness ==
    /\ pc = "done"
    /\ \E i \in 1..Len(state.claims) :
          LET cid == state.claims[i].id
              declared == DeclaredBy(VerdictData(state.verdicts, cid))
              ranked == UrlsOf(DictGet(state.ranked_evidence, cid))
          IN /\ declared \ ranked # {}
             /\ ranked # {}
             /\ PresentedUrls(state.claims[i]) # {}

\* a claim result with only the sources of role supporting left in its
\* supporting list
RoleSupportingOnly(result) ==
    LET IsSupporting(source) == source.role = "supporting"
    IN [result EXCEPT !.sources.supporting = SelectSeq(@, IsSupporting)]

\* C30: in the page score of a run only sources of role supporting count as
\* supporting sources: the score is the one obtained when the neutral
\* fallback items are left out of every claim's count, so a claim whose
\* verdict declared no source gets no per-claim source bonus and adds
\* nothing to the global supporting total
C30_OnlySupportingCounts ==
    pc = "done" =>
        response[1].page_score =
            _calculate_page_score([i \in 1..Len(state.claims) |->
                                      RoleSupportingOnly(state.claims[i])])
=============================================================================
